---- MODULE Spec2Model ----
(***************************************************************************)
(* Real-time connection and event fan-out layer.                           *)
(*                                                                         *)
(* Part I   push-stream transport: the `clients` registry of               *)
(*          app/api/sse/route.ts, the static SSEManager of lib/sse/index.ts*)
(*          and the administrative endpoint app/api/sse/message/route.ts.  *)
(* Part II  duplex-socket transport: the `users` registry of server.js and *)
(*          the send helpers of lib/socket/utils.ts.                       *)
(* Part III the SocketManager of lib/socket/server.ts and its timers.      *)
(* Part IV  the client hook hooks/useSSE.ts and its shared socket registry.*)
(*                                                                         *)
(* A send is described by the set of transports that received it; the      *)
(* payload is represented for SSEManager.broadcast and sendToChannel only. *)
(* A JS Map is a function over the key space with an "absent" value; no    *)
(* modelled result depends on Map iteration order except where noted.      *)
(*                                                                         *)
(* Spec and SpecSock let timers fire at any moment; SpecTimed and          *)
(* SpecSockTimed keep the pruning and the sweep interval on time;          *)
(* SpecEnrich is the display-name chain of one connection; SpecBeat adds   *)
(* the 3 s heartbeat of each stream to the pruning timer; SpecManager is   *)
(* Part III; SpecHook and SpecHookEvents are Part IV.                      *)
(***************************************************************************)
EXTENDS Integers, FiniteSets, Sequences, TLC

(***************************************************************************)
(* Bounds of the model                                                     *)
(***************************************************************************)
MaxUsers == 2
MaxAnon == 1
MaxStreams == 2
MaxRecipients == 2
MaxSockets == 2
MaxTimers == 3
MaxHooks == 2
MaxClientSockets == 1
MaxPending == 2
MaxRefCount == 3
BeatsCap == 4
reconnectAttempts == 2

(***************************************************************************)
(* Program constants                                                       *)
(***************************************************************************)
StaleMs == 10000
CleanupIntervalMs == 5000
ACTIVE_WINDOW_MS == 3000
inactiveThreshold == 300000
SweepIntervalMs == 30000
HeartbeatMs == 3000
ManagerTickMs == 30000

None == 0
UserIds == 1..MaxUsers
AnonIds == (MaxUsers + 1)..(MaxUsers + MaxAnon)
ClientIds == UserIds \cup AnonIds
ServerId == MaxUsers + MaxAnon + 1
Streams == 1..MaxStreams
Sockets == 1..MaxSockets
Channels == {"general", "g"}
\* The room a client asks to join or leave, besides the default one it starts in.
Rooms == {"g"}

\* The clock is observed at the granularity of the pruning timer.
TickMs == CleanupIntervalMs
IdleCap == StaleMs + TickMs

VARIABLES
    clients,    \* route.ts `clients`: client id -> record, NoClient if absent
    stream,     \* one entry per GET request in progress: its closure and controller
    users,      \* server.js `users`: the socket ids that are keys, in insertion order
    user,       \* the `user` object each connection handler closes over
    sockets,    \* io.sockets.sockets and the adapter: connected, rooms joined
    pending,    \* sockets whose profile fetch has not settled
    activeSockets,  \* server.js `activeSockets`
    last,       \* what the handler that ran last did and returned
    timer,      \* time since the pruning, the sweep and each heartbeat interval fired
    enrich,     \* one connection's handshake data and the name derived from it
    manager,    \* lib/socket/server.ts: the socketManager singleton and its timers
    socketRegistry, \* hooks/useSSE.ts `socketRegistry`: the shared client socket
    clientSocket,   \* the Socket objects io() has returned to useSSE instances
    hook        \* hooks/useSSE.ts: the refs and status of each useSSE instance

sseVars == <<clients, stream>>
sockVars == <<users, user, sockets, pending, activeSockets>>
hookVars == <<socketRegistry, clientSocket, hook>>
vars == <<clients, stream, users, user, sockets, pending, activeSockets, last,
          timer, enrich, manager, socketRegistry, clientSocket, hook>>

\* ClientConnection; `idle` stands for Date.now() - lastActive.
NoClient == [ctrl |-> None, userId |-> None, idle |-> 0]
\* The closure of one GET: clientId, userId, the controller's state, the
\* heartbeat interval.
NoStream == [key |-> None, userId |-> None, open |-> FALSE, hb |-> FALSE]
\* The user record of server.js; `idle` stands for now - lastActive, `named`
\* for displayName having been set.
NoUser == [userId |-> None, rooms |-> {}, idle |-> 0, named |-> FALSE]
NoSocket == [conn |-> FALSE, rooms |-> {}]

Has(reg, id) == id \in ClientIds /\ reg[id].ctrl # None
Keys(reg) == {c \in ClientIds : reg[c].ctrl # None}
Controllers(reg) == {reg[c].ctrl : c \in Keys(reg)}
OpenStreams(st) == {s \in Streams : st[s].open}
Delete(reg, ids) == [c \in ClientIds |-> IF c \in ids THEN NoClient ELSE reg[c]]

\* controller.enqueue(...) succeeds exactly on a writable controller.
CanWrite(st, s) == s \in Streams /\ st[s].open

\* Event payloads.  An object is a function from the property names in use to
\* values; Absent marks a name the object does not have, Undefined a property
\* whose value is undefined.  `data` and `metadata` of a call are an object or
\* undefined (defined = FALSE).
Absent == "(absent)"
Undefined == "(undefined)"
ObjKeys == {"x", "m", "channel"}
EmptyObject == [k \in ObjKeys |-> Absent]
NoObject == [defined |-> FALSE, props |-> EmptyObject]
NoEvent == [type |-> "", data |-> NoObject, metadata |-> NoObject]
\* o[k]
Read(o, k) == IF ~o.defined \/ o.props[k] = Absent THEN Undefined ELSE o.props[k]
\* { ...o, channel }
SpreadWithChannel(o, ch) ==
    [defined |-> TRUE,
     props |-> [(IF o.defined THEN o.props ELSE EmptyObject) EXCEPT !["channel"] = ch]]
\* JSON.stringify: the name/value pairs of the properties that have a value
\* (a property that is undefined is left out, like a value that is undefined).
JSON_stringify(o) ==
    [defined |-> o.defined,
     pairs |-> {<<k, o.props[k]>> : k \in {j \in ObjKeys :
                                              o.props[j] \notin {Absent, Undefined}}}]
\* JSON.parse on the receiving side.
JSON_parse(w) ==
    [defined |-> w.defined,
     props |-> [k \in ObjKeys |->
                  IF \E pr \in w.pairs : pr[1] = k
                  THEN (CHOOSE pr \in w.pairs : pr[1] = k)[2]
                  ELSE Absent]]
\* `event: ${event}\ndata: ${JSON.stringify(data)}\n\n` as the client reads it.
Frame(ev) ==
    [type |-> ev.type,
     data |-> JSON_parse(JSON_stringify(ev.data)),
     metadata |-> JSON_parse(JSON_stringify(ev.metadata))]
\* The payloads callers pass.
Payloads ==
    [type : {"t"},
     data : {[defined |-> TRUE, props |-> [EmptyObject EXCEPT !["x"] = x, !["channel"] = c]] :
                x \in {"1", Undefined}, c \in {Absent, "mine"}},
     metadata : {NoObject, [defined |-> TRUE, props |-> [EmptyObject EXCEPT !["m"] = "1"]]}]

\* Outcome of a handler: `before` and `wasOpen` are the registered and the
\* writable controllers when it started sending, `targets` the controllers it
\* wrote to or tried to, `delivered` those whose write succeeded.
\* `found` tells whether the record the handler looked up was there, `removed`
\* holds the records it took out of the registry (as they were), `events` the
\* events it emitted to every connection, in order.  `sent` is the event the
\* caller of a fan-out passed, `received` the one a connection reads.  `steps`
\* are the steps of a removal in the order the statements run, `invoked` the
\* handlers of eventHandlersRef a client event listener called, in order.
NoCall ==
    [op |-> "none", mode |-> "", hasId |-> FALSE, arg |-> None, recips |-> {},
     before |-> {}, wasOpen |-> {}, targets |-> {}, delivered |-> {},
     count |-> 0, ok |-> FALSE, threw |-> FALSE,
     found |-> FALSE, removed |-> {}, events |-> <<>>,
     sent |-> NoEvent, received |-> NoEvent, steps |-> <<>>, invoked |-> <<>>]

\* An emitted event: its type and subtype, the connection it is about, the
\* connection count, user id and display-name flag it carries (None, FALSE
\* where the payload has no such field or the field is undefined).
Ev(type, sub, id, count, userId, named) ==
    [type |-> type, sub |-> sub, id |-> id, count |-> count, userId |-> userId,
     named |-> named, ids |-> {}]
\* The presence event about connection id: its state, activeCount =
\* activeSockets.size and activeIds = Array.from(activeSockets), both read from
\* the set `act` as it is when the event is built.
Presence(state, id, act) ==
    [Ev("presence", state, id, Cardinality(act), None, FALSE) EXCEPT !.ids = act]

\* Text is a sequence of characters; the empty sequence stands for "", undefined
\* and null alike, the values the `||` of the name chain passes over.
Empty == <<>>
NoEnrich == [userId |-> Empty, userName |-> Empty, userEmail |-> Empty,
             settled |-> "none", username |-> Empty,
             u |-> [name |-> Empty, email |-> Empty]]

\* The socketManager singleton of lib/socket/server.ts.  `io` is null, open or
\* closed; `heartbeatInterval` is the handle the field holds; `running` are the
\* intervals set and not cleared, `due` those whose period has passed, `issued`
\* the number of handles setInterval has returned; `users` holds the idle age of
\* each record (NoRecord when there is none), `conn` the connected sockets.
Timers == 1..MaxTimers
NoRecord == -1
NoManager ==
    [io |-> "null", heartbeatInterval |-> None, running |-> {}, due |-> {},
     issued |-> 0, users |-> [s \in Sockets |-> NoRecord], conn |-> {}]

\* hooks/useSSE.ts.  All useSSE instances of the model are given the same url,
\* path and auth, so buildRegistryKey gives them one key; socketRegistry is the
\* entry under that key (socket = None when there is none).  With one key there
\* is one socket in use at a time: the socket of a deleted entry is referred to
\* by nothing, and its slot is taken again.
Hooks == 1..MaxHooks
ClientSockets == 1..MaxClientSockets
EventTypes == {"presence", "connection-update", "notification"}
NoEntry == [socket |-> None, refCount |-> 0]
\* A Socket of socket.io-client: `made` once io() has returned it, `listeners`
\* the hooks whose per-hook listeners are attached to it.
NoClientSocket ==
    [made |-> FALSE, connected |-> FALSE, connecting |-> FALSE, listeners |-> {}]
\* One useSSE instance: socketRef.current; socketListenerRef.current.connect
\* being set (`listening`); reconnectCountRef.current; the reconnect timeouts
\* set and not yet fired or cleared (`pending`) and whether the one
\* reconnectTimeoutRef holds is among them (`latest`); the heartbeat interval;
\* the status object (error "" stands for null); the types eventHandlersRef has
\* a handler for; presenceRef.current.activeIds and connectionInfo.
\* `attempts` counts the connection attempts the hook's reconnect timeouts have
\* started since its socket last connected or its connect()/disconnect() was
\* called.
NoHook ==
    [socketRef |-> None, listening |-> FALSE, reconnectCount |-> 0,
     pending |-> 0, latest |-> FALSE, heartbeat |-> FALSE,
     connected |-> FALSE, connecting |-> FALSE, error |-> "",
     reconnectAttempts |-> 0, handlers |-> {}, activeIds |-> {},
     totalConnections |-> 0, attempts |-> 0]

\* Handlers run to completion on the one event loop.  `last` holds the outcome of
\* the handler that has just run until its caller has taken it (Return).
Ready == last = NoCall

Init ==
    /\ clients = [c \in ClientIds |-> NoClient]
    /\ stream = [s \in Streams |-> NoStream]
    /\ users = <<>>
    /\ user = [s \in Sockets |-> NoUser]
    /\ sockets = [s \in Sockets |-> NoSocket]
    /\ pending = {}
    /\ activeSockets = {}
    /\ last = NoCall
    /\ timer = [cleanup |-> 0, sweep |-> 0, since |-> [s \in Streams |-> 0],
                beats |-> [s \in Streams |-> 0]]
    /\ enrich = NoEnrich
    /\ manager = NoManager
    /\ socketRegistry = NoEntry
    /\ clientSocket = [k \in ClientSockets |-> NoClientSocket]
    /\ hook = [h \in Hooks |-> NoHook]

Return ==
    /\ ~Ready
    /\ last' = NoCall
    /\ UNCHANGED <<sseVars, sockVars, timer, enrich, manager, hookVars>>

(***************************************************************************)
(* app/api/sse/route.ts                                                    *)
(***************************************************************************)
\* broadcastEvent: enqueue on every registered controller; a write that throws
\* is swallowed and the record stays.
broadcastEvent(reg, st) == {s \in Controllers(reg) : CanWrite(st, s)}

\* GET: clientId is the userId when one is given, else a generated unique id.
\* start(controller) registers the connection (replacing a record under the
\* same id), confirms, announces and starts the heartbeat.
GET(uid) ==
    \E s \in Streams, cid \in ClientIds :
        /\ Ready
        /\ UNCHANGED <<sockVars, timer, enrich, manager, hookVars>>
        /\ stream[s] = NoStream
        /\ \A t \in Streams : stream[t] = NoStream => s <= t
        /\ IF uid # None THEN cid = uid
           ELSE /\ cid \in AnonIds
                /\ ~Has(clients, cid)
                /\ \A t \in Streams : stream[t].key # cid
        /\ LET reg == [clients EXCEPT ![cid] = [ctrl |-> s, userId |-> uid, idle |-> 0]]
               st == [stream EXCEPT ![s] = [key |-> cid, userId |-> uid,
                                            open |-> TRUE, hb |-> TRUE]]
           IN  /\ clients' = reg
               /\ stream' = st
               /\ last' = [NoCall EXCEPT !.op = "GET", !.arg = cid,
                             !.before = Controllers(clients),
                             !.wasOpen = OpenStreams(st),
                             !.targets = Controllers(reg),
                             !.delivered = broadcastEvent(reg, st),
                             !.count = Cardinality(Keys(reg)),
                             !.found = Has(clients, cid),
                             !.events = <<Ev("connection-update", "new-connection",
                                            cid, Cardinality(Keys(reg)), uid, FALSE)>>]

\* request.signal "abort" listener of the request that created stream s.
\* controller.close() on a controller that is no longer writable throws, and the
\* listener then ends before the disconnection is announced.
AbortFires(s) ==
    /\ Ready
    /\ UNCHANGED <<sockVars, enrich, manager, hookVars>>
    /\ stream[s] # NoStream
    /\ LET cid == stream[s].key
           reg == Delete(clients, {cid})
           st == [stream EXCEPT ![s] = NoStream]
           closeThrows == ~stream[s].open
       IN  /\ clients' = reg
           /\ stream' = st
           /\ last' = [NoCall EXCEPT !.op = "abort", !.arg = cid,
                         !.before = Controllers(clients),
                         !.wasOpen = OpenStreams(st),
                         !.targets = IF closeThrows THEN {} ELSE Controllers(reg),
                         !.delivered = IF closeThrows THEN {} ELSE broadcastEvent(reg, st),
                         !.count = Cardinality(Keys(reg)),
                         !.threw = closeThrows,
                         !.found = Has(clients, cid),
                         !.removed = IF Has(clients, cid)
                                     THEN {[id |-> cid, userId |-> clients[cid].userId,
                                            named |-> FALSE]}
                                     ELSE {},
                         !.events = IF closeThrows THEN <<>>
                                    ELSE <<Ev("connection-update", "disconnection", cid,
                                              Cardinality(Keys(reg)),
                                              clients[cid].userId, FALSE)>>]

AbortListener(s) == AbortFires(s) /\ UNCHANGED timer

\* The peer goes away: the stream is cancelled or errored by the runtime, so the
\* controller stops being writable while its record is still in `clients`.
TransportClose(s) ==
    /\ Ready
    /\ UNCHANGED <<sockVars, timer, enrich, manager, hookVars>>
    /\ stream[s].open
    /\ stream' = [stream EXCEPT ![s].open = FALSE]
    /\ last' = [NoCall EXCEPT !.op = "transportClose", !.arg = stream[s].key]
    /\ UNCHANGED clients

\* The heartbeat callback that writes but does not touch lastActive.
heartbeat_NoRefresh(reg, st, s) ==
    IF st[s].open
    THEN [reg |-> reg, st |-> st, ok |-> TRUE]
    ELSE [reg |-> reg, st |-> [st EXCEPT ![s].hb = FALSE], ok |-> FALSE]

\* The callback of the per-connection heartbeat interval of stream s: a
\* successful write refreshes whatever record is registered under the client
\* id; a failed one stops the interval.
heartbeat(reg, st, s) ==
    IF st[s].open
    THEN [reg |-> IF Has(reg, st[s].key)
                  THEN [reg EXCEPT ![st[s].key].idle = 0]
                  ELSE reg,
          st |-> st, ok |-> TRUE]
    ELSE [reg |-> reg, st |-> [st EXCEPT ![s].hb = FALSE], ok |-> FALSE]

\* The heartbeat interval of stream s fires.
HeartbeatFires(s) ==
    LET r == heartbeat(clients, stream, s)
    IN  /\ Ready
        /\ UNCHANGED <<sockVars, enrich, manager, hookVars>>
        /\ stream[s].hb
        /\ clients' = r.reg
        /\ stream' = r.st
        /\ last' = [NoCall EXCEPT !.op = "heartbeat", !.arg = stream[s].key,
                      !.before = Controllers(clients),
                      !.wasOpen = OpenStreams(stream),
                      !.targets = {s},
                      !.delivered = IF r.ok THEN {s} ELSE {}]

\* setInterval(..., 3000) of stream s, at any moment.
Heartbeat(s) == HeartbeatFires(s) /\ UNCHANGED timer

\* cleanupDeadConnections with the delete inside the try: a record whose
\* controller is already closed, so that close() throws, stays registered.
cleanupDeadConnections_KeepOnThrow(reg, st) ==
    LET dead == {c \in Keys(reg) : reg[c].idle > StaleMs}
        deadCtrl == {reg[c].ctrl : c \in dead}
    IN  [reg |-> Delete(reg, {c \in dead : CanWrite(st, reg[c].ctrl)}),
         st |-> [s \in Streams |-> IF s \in deadCtrl
                                   THEN [st[s] EXCEPT !.open = FALSE]
                                   ELSE st[s]],
         dead |-> deadCtrl]

\* cleanupDeadConnections without the try around close(): the first close()
\* that throws ends the call, so the dead records after it stay open and no
\* record is deleted.
cleanupDeadConnections_AbortOnThrow(reg, st) ==
    LET dead == {c \in Keys(reg) : reg[c].idle > StaleMs}
        deadCtrl == {reg[c].ctrl : c \in dead}
        thrower == {c \in dead : ~CanWrite(st, reg[c].ctrl)}
        closed == {reg[c].ctrl : c \in {d \in dead : \A t \in thrower : d < t}}
    IN  IF thrower = {} THEN
            [reg |-> Delete(reg, dead),
             st |-> [s \in Streams |-> IF s \in deadCtrl
                                       THEN [st[s] EXCEPT !.open = FALSE]
                                       ELSE st[s]],
             dead |-> deadCtrl]
        ELSE
            [reg |-> reg,
             st |-> [s \in Streams |-> IF s \in closed
                                       THEN [st[s] EXCEPT !.open = FALSE]
                                       ELSE st[s]],
             dead |-> deadCtrl]

\* cleanupDeadConnections: close and delete every record idle for more than
\* StaleMs; a close() that throws is caught.
cleanupDeadConnections(reg, st) ==
    LET dead == {c \in Keys(reg) : reg[c].idle > StaleMs}
        deadCtrl == {reg[c].ctrl : c \in dead}
    IN  [reg |-> Delete(reg, dead),
         st |-> [s \in Streams |-> IF s \in deadCtrl
                                   THEN [st[s] EXCEPT !.open = FALSE]
                                   ELSE st[s]],
         dead |-> deadCtrl]

\* The callback of setInterval(cleanupDeadConnections, 5000) runs.
CleanupFires ==
    LET r == cleanupDeadConnections(clients, stream)
    IN  /\ Ready
        /\ UNCHANGED <<sockVars, enrich, manager, hookVars>>
        /\ clients' = r.reg
        /\ stream' = r.st
        /\ last' = [NoCall EXCEPT !.op = "cleanup", !.before = Controllers(clients),
                      !.wasOpen = OpenStreams(stream),
                      !.targets = r.dead, !.count = Cardinality(r.dead)]

\* setInterval(cleanupDeadConnections, 5000), at any moment.
CleanupTimer == CleanupFires /\ UNCHANGED timer

\* setInterval(cleanupDeadConnections, 5000), on time: the callback runs when
\* CleanupIntervalMs have passed since it ran last, before more time passes.
TimedCleanup ==
    /\ timer.cleanup = CleanupIntervalMs
    /\ CleanupFires
    /\ timer' = [timer EXCEPT !.cleanup = 0]

\* The registry TickMs later: every record is TickMs older, up to `cap`.
Older(reg, cap) ==
    [c \in ClientIds |->
        IF Has(reg, c) /\ reg[c].idle < cap
        THEN [reg[c] EXCEPT !.idle = @ + TickMs]
        ELSE reg[c]]

\* Time passes: every record gets TickMs older (saturating at IdleCap).
Tick ==
    /\ Ready
    /\ UNCHANGED <<sockVars, timer, enrich, manager, hookVars>>
    /\ \E c \in Keys(clients) : clients[c].idle < IdleCap
    /\ clients' = Older(clients, IdleCap)
    /\ last' = [NoCall EXCEPT !.op = "tick"]
    /\ UNCHANGED stream

\* Time passes while the pruning timer is kept: TickMs, and no more than the
\* timer's period without its callback running.  Ages are followed one
\* period further than in Tick.
TimedIdleCap == IdleCap + CleanupIntervalMs
TimedTick ==
    /\ Ready
    /\ timer.cleanup < CleanupIntervalMs
    /\ clients' = Older(clients, TimedIdleCap)
    /\ timer' = [timer EXCEPT !.cleanup = @ + TickMs]
    /\ last' = [NoCall EXCEPT !.op = "tick"]
    /\ UNCHANGED <<stream, sockVars, enrich, manager, hookVars>>

\* route.ts sendToClient: write to the client's controller if it is registered;
\* a failed write deletes the record.  Nothing is returned or thrown.
sendToClient(reg, st, id) ==
    IF Has(reg, id)
    THEN IF CanWrite(st, reg[id].ctrl)
         THEN [reg |-> reg, tried |-> {reg[id].ctrl}, got |-> {reg[id].ctrl},
               threw |-> FALSE]
         ELSE [reg |-> Delete(reg, {id}), tried |-> {reg[id].ctrl}, got |-> {},
               threw |-> FALSE]
    ELSE [reg |-> reg, tried |-> {}, got |-> {}, threw |-> FALSE]

(***************************************************************************)
(* lib/sse/index.ts: the static SSEManager over route.ts                   *)
(***************************************************************************)
\* SSEManager.sendToClient: true unless the route's sendToClient throws.
SSEManager_sendToClient(reg, st, id) ==
    LET r == sendToClient(reg, st, id)
    IN  [reg |-> r.reg, tried |-> r.tried, got |-> r.got, ok |-> ~r.threw]

\* The forEach of SSEManager.sendToUser over the user's client ids.
RECURSIVE SendEach(_, _, _, _)
SendEach(reg, st, ids, acc) ==
    IF ids = {}
    THEN [reg |-> reg, tried |-> acc.tried, got |-> acc.got, count |-> acc.count]
    ELSE LET id == CHOOSE x \in ids : TRUE
             r == SSEManager_sendToClient(reg, st, id)
         IN  SendEach(r.reg, st, ids \ {id},
                      [tried |-> acc.tried \cup r.tried,
                       got |-> acc.got \cup r.got,
                       count |-> IF r.ok THEN acc.count + 1 ELSE acc.count])

UserClients(reg, u) == {c \in Keys(reg) : reg[c].userId = u}

\* SSEManager.sendToUser
SSEManager_sendToUser(reg, st, u) ==
    SendEach(reg, st, UserClients(reg, u), [tried |-> {}, got |-> {}, count |-> 0])

\* SSEManager.broadcast: eventData = {type: event, data, timestamp, metadata}
eventData_broadcast(ev) ==
    [type |-> ev.type, data |-> ev.data, metadata |-> ev.metadata]
\* SSEManager.sendToChannel: eventData = {type: event, data: {...data, channel},
\* timestamp, metadata: {...metadata, channel}}
eventData_sendToChannel(ch, ev) ==
    [type |-> ev.type, data |-> SpreadWithChannel(ev.data, ch),
     metadata |-> SpreadWithChannel(ev.metadata, ch)]

\* SSEManager.broadcast: broadcastEvent, then the size of the registry.
SSEManager_broadcast(reg, st) ==
    [reg |-> reg, tried |-> Controllers(reg), got |-> broadcastEvent(reg, st),
     count |-> Cardinality(Keys(reg))]

\* ClientConnection has no channel field and route.ts no join operation: a
\* push-stream connection is joined to no channel.
JoinedChannels(reg, s) == {}

\* SSEManager.sendToChannel: the channel only tags the payload; the event goes
\* to every client.
SSEManager_sendToChannel(reg, st, ch) ==
    [reg |-> reg, tried |-> Controllers(reg), got |-> broadcastEvent(reg, st),
     count |-> Cardinality(Keys(reg))]

SendToClient(id) ==
    LET r == SSEManager_sendToClient(clients, stream, id)
    IN  /\ Ready
        /\ UNCHANGED <<sockVars, timer, enrich, manager, hookVars>>
        /\ clients' = r.reg
        /\ last' = [NoCall EXCEPT !.op = "sendToClient", !.arg = id,
                      !.before = Controllers(clients), !.wasOpen = OpenStreams(stream),
                      !.targets = r.tried, !.delivered = r.got, !.ok = r.ok,
                      !.count = IF r.ok THEN 1 ELSE 0]
        /\ UNCHANGED stream

SendToUser(u) ==
    LET r == SSEManager_sendToUser(clients, stream, u)
    IN  /\ Ready
        /\ UNCHANGED <<sockVars, timer, enrich, manager, hookVars>>
        /\ clients' = r.reg
        /\ last' = [NoCall EXCEPT !.op = "sendToUser", !.arg = u,
                      !.before = Controllers(clients), !.wasOpen = OpenStreams(stream),
                      !.targets = r.tried, !.delivered = r.got, !.count = r.count,
                      !.ok = r.count > 0]
        /\ UNCHANGED stream

Broadcast(ev) ==
    LET r == SSEManager_broadcast(clients, stream)
    IN  /\ Ready
        /\ UNCHANGED <<sockVars, timer, enrich, manager, hookVars>>
        /\ clients' = r.reg
        /\ last' = [NoCall EXCEPT !.op = "broadcast",
                      !.before = Controllers(clients), !.wasOpen = OpenStreams(stream),
                      !.targets = r.tried, !.delivered = r.got, !.count = r.count,
                      !.ok = r.count > 0,
                      !.sent = ev, !.received = Frame(eventData_broadcast(ev))]
        /\ UNCHANGED stream

SendToChannel(ch, ev) ==
    LET r == SSEManager_sendToChannel(clients, stream, ch)
    IN  /\ Ready
        /\ UNCHANGED <<sockVars, timer, enrich, manager, hookVars>>
        /\ clients' = r.reg
        /\ last' = [NoCall EXCEPT !.op = "sendToChannel", !.mode = ch,
                      !.before = Controllers(clients), !.wasOpen = OpenStreams(stream),
                      !.targets = r.tried, !.delivered = r.got, !.count = r.count,
                      !.ok = r.count > 0,
                      !.sent = ev,
                      !.received = Frame(eventData_sendToChannel(ch, ev))]
        /\ UNCHANGED stream

\* SSEManager.disconnectClient: close the controller of a registered client and
\* delete its record; a close() that throws is caught before the delete, and
\* false is returned.
SSEManager_disconnectClient(reg, st, id) ==
    IF Has(reg, id)
    THEN IF CanWrite(st, reg[id].ctrl)
         THEN [reg |-> Delete(reg, {id}),
               st |-> [st EXCEPT ![reg[id].ctrl].open = FALSE],
               ok |-> TRUE, threw |-> FALSE]
         ELSE [reg |-> reg, st |-> st, ok |-> FALSE, threw |-> TRUE]
    ELSE [reg |-> reg, st |-> st, ok |-> FALSE, threw |-> FALSE]

DisconnectClient(id) ==
    LET r == SSEManager_disconnectClient(clients, stream, id)
    IN  /\ Ready
        /\ UNCHANGED <<sockVars, timer, enrich, manager, hookVars>>
        /\ clients' = r.reg
        /\ stream' = r.st
        /\ last' = [NoCall EXCEPT !.op = "disconnectClient", !.arg = id,
                      !.before = Controllers(clients), !.wasOpen = OpenStreams(stream),
                      !.found = Has(clients, id),
                      !.targets = IF Has(clients, id) THEN {clients[id].ctrl} ELSE {},
                      !.ok = r.ok]

Targets == {"all", "channel", "user", "client"}

\* The switch without its targetId checks: an undefined id is passed on.
SSEManager_sendSystemNotification_Unchecked(reg, st, target, hasId, id) ==
    LET tid == IF hasId THEN id ELSE None
        r == CASE target = "client" ->
                    LET c == SSEManager_sendToClient(reg, st, tid)
                    IN  [reg |-> c.reg, tried |-> c.tried, got |-> c.got,
                         count |-> IF c.ok THEN 1 ELSE 0]
               [] target = "user" -> SSEManager_sendToUser(reg, st, tid)
               [] target = "channel" -> SSEManager_sendToChannel(reg, st, id)
               [] OTHER -> SSEManager_broadcast(reg, st)
    IN  [reg |-> r.reg, tried |-> r.tried, got |-> r.got, ok |-> r.count > 0,
         count |-> r.count, threw |-> FALSE]

\* SSEManager.sendSystemNotification(type, data, target, targetId): a targeted
\* notification without targetId throws before anything is sent.
SSEManager_sendSystemNotification(reg, st, target, hasId, id) ==
    LET thrown == [reg |-> reg, tried |-> {}, got |-> {}, count |-> 0,
                   ok |-> FALSE, threw |-> TRUE]
    IN  CASE target = "client" ->
               IF ~hasId THEN thrown
               ELSE LET r == SSEManager_sendToClient(reg, st, id)
                    IN  [reg |-> r.reg, tried |-> r.tried, got |-> r.got, ok |-> r.ok,
                         count |-> IF r.ok THEN 1 ELSE 0, threw |-> FALSE]
          [] target = "user" ->
               IF ~hasId THEN thrown
               ELSE LET r == SSEManager_sendToUser(reg, st, id)
                    IN  [reg |-> r.reg, tried |-> r.tried, got |-> r.got,
                         ok |-> r.count > 0, count |-> r.count, threw |-> FALSE]
          [] target = "channel" ->
               IF ~hasId THEN thrown
               ELSE LET r == SSEManager_sendToChannel(reg, st, id)
                    IN  [reg |-> r.reg, tried |-> r.tried, got |-> r.got,
                         ok |-> r.count > 0, count |-> r.count, threw |-> FALSE]
          [] OTHER ->
               LET r == SSEManager_broadcast(reg, st)
               IN  [reg |-> r.reg, tried |-> r.tried, got |-> r.got,
                    ok |-> r.count > 0, count |-> r.count, threw |-> FALSE]

TargetIds(target) ==
    CASE target = "client" -> ClientIds \cup {ServerId}
      [] target = "user" -> UserIds \cup {ServerId}
      [] target = "channel" -> Channels
      [] OTHER -> {None}

SendSystemNotification(target, hasId) ==
    \E id \in TargetIds(target) :
        LET r == SSEManager_sendSystemNotification(clients, stream, target, hasId, id)
        IN  /\ Ready
            /\ UNCHANGED <<sockVars, timer, enrich, manager, hookVars>>
            /\ clients' = r.reg
            /\ last' = [NoCall EXCEPT !.op = "sendSystemNotification",
                          !.mode = target, !.hasId = hasId,
                          !.before = Controllers(clients),
                          !.wasOpen = OpenStreams(stream),
                          !.targets = r.tried, !.delivered = r.got,
                          !.count = r.count, !.ok = r.ok, !.threw = r.threw]
            /\ UNCHANGED stream

(***************************************************************************)
(* app/api/sse/message/route.ts                                            *)
(***************************************************************************)
RecipientIds == ClientIds \cup {ServerId}
RecipientLists == {l \in SUBSET RecipientIds : Cardinality(l) <= MaxRecipients}
\* Senders: "server" or a connected client (any other id behaves as "server").
Senders(reg) == Keys(reg) \cup {ServerId}

\* The recipients loop without its lookup by client id.
ResolveRecipient_UserIdOnly(reg, r) ==
    LET byUser == {c \in Keys(reg) : reg[c].userId = r}
    IN  IF byUser = {} THEN None
        ELSE reg[CHOOSE c \in byUser : \A d \in byUser : c <= d].ctrl

\* One pass of the recipients loop: the record registered under the identifier,
\* else the first record whose userId equals it, else nothing.
ResolveRecipient(reg, r) ==
    IF Has(reg, r) THEN reg[r].ctrl
    ELSE LET byUser == {c \in Keys(reg) : reg[c].userId = r}
         IN  IF byUser = {} THEN None
             ELSE reg[CHOOSE c \in byUser : \A d \in byUser : c <= d].ctrl

AllClients(reg) == [c \in Keys(reg) |-> reg[c].ctrl]

\* targetClients: identifier -> controller.
TargetClients(reg, bflag, recips) ==
    LET found == [r \in {x \in recips : ResolveRecipient(reg, x) # None}
                    |-> ResolveRecipient(reg, r)]
    IN  IF bflag THEN AllClients(reg)
        ELSE IF recips # {}
             THEN IF DOMAIN found = {} THEN AllClients(reg) ELSE found
             ELSE AllClients(reg)

\* The send loop without its try/catch: the first failed write ends the loop
\* and the handler.
SendToTargets_AbortOnFailure(reg, st, tgt) ==
    LET failedSends == {id \in DOMAIN tgt : ~CanWrite(st, tgt[id])}
        firstFailed == CHOOSE id \in failedSends : \A d \in failedSends : id <= d
        reached == IF failedSends = {} THEN DOMAIN tgt
                   ELSE {id \in DOMAIN tgt : id < firstFailed}
    IN  [reg |-> reg,
         tried |-> {tgt[id] : id \in DOMAIN tgt},
         got |-> {tgt[id] : id \in reached},
         sentTo |-> Cardinality(reached),
         threw |-> failedSends # {}]

\* The send loop and the cleanup of failed sends.
SendToTargets(reg, st, tgt) ==
    LET successfulSends == {id \in DOMAIN tgt : CanWrite(st, tgt[id])}
        failedSends == DOMAIN tgt \ successfulSends
    IN  [reg |-> Delete(reg, failedSends),
         tried |-> {tgt[id] : id \in DOMAIN tgt},
         got |-> {tgt[id] : id \in successfulSends},
         sentTo |-> Cardinality(successfulSends),
         threw |-> FALSE]

\* POST with body {clientId: from, data: {broadcast: bflag, recipients: recips}}:
\* sweep, refresh the sender, resolve the targets, send, drop the failed.
POST(from, bflag, recips) ==
    LET c == cleanupDeadConnections(clients, stream)
        reg == IF Has(c.reg, from) THEN [c.reg EXCEPT ![from].idle = 0] ELSE c.reg
        r == SendToTargets(reg, c.st, TargetClients(reg, bflag, recips))
    IN  /\ Ready
        /\ UNCHANGED <<sockVars, timer, enrich, manager, hookVars>>
        /\ clients' = r.reg
        /\ stream' = c.st
        /\ last' = [NoCall EXCEPT !.op = "POST",
                      !.mode = IF bflag THEN "broadcast" ELSE "recipients",
                      !.recips = recips,
                      !.before = Controllers(reg), !.wasOpen = OpenStreams(c.st),
                      !.targets = r.tried, !.delivered = r.got,
                      !.count = r.sentTo, !.ok = ~r.threw, !.threw = r.threw]

\* A body that is not JSON: request.json() rejects and the handler answers 400.
POSTMalformed ==
    /\ Ready
    /\ UNCHANGED <<sockVars, timer, enrich, manager, hookVars>>
    /\ last' = [NoCall EXCEPT !.op = "POST", !.mode = "malformed", !.threw = TRUE,
                  !.before = Controllers(clients), !.wasOpen = OpenStreams(stream)]
    /\ UNCHANGED <<clients, stream>>

\* What requests, peers and callers do, the clock and the pruning timer apart.
Requests ==
    \/ \E uid \in UserIds \cup {None} : GET(uid)
    \/ \E s \in Streams : AbortListener(s)
    \/ \E s \in Streams : TransportClose(s)
    \/ \E s \in Streams : Heartbeat(s)
    \/ \E id \in ClientIds \cup {ServerId} : SendToClient(id)
    \/ \E u \in UserIds \cup {ServerId} : SendToUser(u)
    \/ \E ev \in Payloads : Broadcast(ev)
    \/ \E ch \in Channels, ev \in Payloads : SendToChannel(ch, ev)
    \/ \E target \in Targets, hasId \in BOOLEAN : SendSystemNotification(target, hasId)
    \/ \E from \in Senders(clients), recips \in RecipientLists : POST(from, FALSE, recips)
    \/ \E from \in Senders(clients) : POST(from, TRUE, {})
    \/ POSTMalformed
    \/ \E id \in ClientIds : DisconnectClient(id)

Next ==
    \/ Requests
    \/ CleanupTimer
    \/ Tick
    \/ Return

Spec == Init /\ [][Next]_vars

\* The same program with the pruning timer on time.
NextTimed ==
    \/ Requests
    \/ TimedCleanup
    \/ TimedTick
    \/ Return

SpecTimed == Init /\ [][NextTimed]_vars

\* The push-stream registry with the pruning timer and every connection's
\* heartbeat interval on time.  The clock is observed every BeatTickMs, which
\* divides both periods; timer.since[s] is the time since the heartbeat of
\* stream s was set or fired, timer.beats[s] the number of its successful
\* writes in a row, counted up to BeatsCap.
BeatTickMs == 1000

\* The abort listener; clearInterval(heartbeat) ends the interval of stream s.
TimedAbort(s) ==
    /\ AbortFires(s)
    /\ timer' = [timer EXCEPT !.since[s] = 0, !.beats[s] = 0]

\* setInterval(..., 3000) of stream s, on time.
TimedHeartbeat(s) ==
    /\ timer.since[s] = HeartbeatMs
    /\ HeartbeatFires(s)
    /\ timer' = [timer EXCEPT !.since[s] = 0,
                              !.beats[s] = IF ~stream[s].open THEN 0
                                           ELSE IF @ < BeatsCap THEN @ + 1 ELSE @]

\* BeatTickMs pass, and no more than a timer's period without its callback
\* running.
BeatTick ==
    /\ Ready
    /\ timer.cleanup < CleanupIntervalMs
    /\ \A s \in Streams : stream[s].hb => timer.since[s] < HeartbeatMs
    /\ clients' = [c \in ClientIds |->
                     IF Has(clients, c) /\ clients[c].idle < TimedIdleCap
                     THEN [clients[c] EXCEPT !.idle = @ + BeatTickMs]
                     ELSE clients[c]]
    /\ timer' = [timer EXCEPT
                    !.cleanup = @ + BeatTickMs,
                    !.since = [s \in Streams |->
                                 IF stream[s].hb THEN @[s] + BeatTickMs ELSE @[s]]]
    /\ last' = [NoCall EXCEPT !.op = "tick"]
    /\ UNCHANGED <<stream, sockVars, enrich, manager, hookVars>>

NextBeat ==
    \/ \E uid \in UserIds \cup {None} : GET(uid)
    \/ \E s \in Streams : TimedAbort(s)
    \/ \E s \in Streams : TransportClose(s)
    \/ \E s \in Streams : TimedHeartbeat(s)
    \/ TimedCleanup
    \/ BeatTick
    \/ Return

SpecBeat == Init /\ [][NextBeat]_vars

(***************************************************************************)
(* server.js: the duplex-socket server                                     *)
(***************************************************************************)
\* A JS Map keeps its keys in insertion order: set() of a present key keeps its
\* place, set() of an absent key appends, delete() removes.
MapKeys(m) == {m[i] : i \in DOMAIN m}
\* set() that puts an absent key in the place of the newest entry.
MapSet_OverNewest(m, k) ==
    IF k \in {m[i] : i \in DOMAIN m} THEN m
    ELSE IF m = <<>> THEN <<k>> ELSE [m EXCEPT ![Len(m)] = k]
MapSet(m, k) == IF k \in MapKeys(m) THEN m ELSE Append(m, k)
MapDelete(m, ks) == SelectSeq(m, LAMBDA k : k \notin ks)

Connected(sk) == {s \in Sockets : sk[s].conn}
\* io.emit(...): every connected socket.
io_emit(sk) == Connected(sk)
\* io.to(x).emit(...): the connected sockets in room x; a socket is alone in the
\* room named by its own id.
io_to_socket(sk, s) == {t \in Connected(sk) : t = s}
io_to_room(sk, room) == {t \in Connected(sk) : room \in sk[t].rooms}

\* Time is kept per record as its idle age, observed in steps of the presence
\* window: within the window (0 and ACTIVE_WINDOW_MS), past the window, and past
\* the inactivity threshold.
SockTickMs == ACTIVE_WINDOW_MS
SockIdleCap == ACTIVE_WINDOW_MS + SockTickMs
SockStale == inactiveThreshold + SockTickMs
Age(idle, d) ==
    IF idle + d > inactiveThreshold THEN SockStale
    ELSE IF idle + d > SockIdleCap THEN SockIdleCap ELSE idle + d

\* A socket id is never issued twice: a slot of the model is taken again only
\* when nothing of the program refers to its previous id any more.
SlotFree(s) ==
    /\ ~sockets[s].conn
    /\ s \notin pending
    /\ s \notin MapKeys(users)
    /\ s \notin activeSockets
\* The handler closures of a socket are unreachable once it is disconnected and
\* its fetch has settled; the record then lives on only while `users` holds it.
Closure(usr, us, sk, pend) ==
    [s \in Sockets |->
        IF sk[s].conn \/ s \in pend \/ s \in MapKeys(us) THEN usr[s] ELSE NoUser]

\* io.on("connection"): create and register the record, confirm, announce,
\* start the profile fetch when a userId was given (else name the record at
\* once and announce it), mark active, join "general".
Connection(s, uid) ==
    /\ Ready
    /\ SlotFree(s)
    /\ \A t \in Sockets : SlotFree(t) => s <= t
    /\ user' = [user EXCEPT ![s] = [userId |-> uid, rooms |-> {"general"},
                                    idle |-> 0, named |-> uid = None]]
    /\ users' = MapSet(users, s)
    /\ pending' = IF uid # None THEN pending \cup {s} ELSE pending
    /\ activeSockets' = activeSockets \cup {s}
    /\ sockets' = [sockets EXCEPT ![s] = [conn |-> TRUE, rooms |-> {"general"}]]
    /\ last' = [NoCall EXCEPT !.op = "socket.connection", !.arg = s,
                  !.before = MapKeys(users), !.wasOpen = Connected(sockets),
                  !.targets = io_emit(sockets'), !.delivered = io_emit(sockets'),
                  !.count = Len(users'),
                  !.events =
                     <<Ev("connection-update", "new-connection", s, Len(users'),
                          None, FALSE)>>
                     \o (IF uid = None
                         THEN <<Ev("user:connected", "", s, Len(users'), None, TRUE)>>
                         ELSE <<>>)
                     \o <<Presence("active", s, activeSockets')>>]
    /\ UNCHANGED <<sseVars, timer, enrich, manager, hookVars>>

\* The .then/.catch continuation of the profile fetch: name the record, put it
\* (back) into `users`, announce user:connected.
Enriched(s) ==
    /\ Ready
    /\ s \in pending
    /\ pending' = pending \ {s}
    /\ user' = [user EXCEPT ![s].named = TRUE]
    /\ users' = MapSet(users, s)
    /\ last' = [NoCall EXCEPT !.op = "socket.enriched", !.arg = s,
                  !.before = MapKeys(users), !.wasOpen = Connected(sockets),
                  !.targets = io_emit(sockets), !.delivered = io_emit(sockets),
                  !.count = Len(users'),
                  !.found = s \in MapKeys(users),
                  !.events = <<Ev("user:connected", "", s, Len(users'),
                                 user[s].userId, TRUE)>>]
    /\ UNCHANGED <<sockets, activeSockets, sseVars, timer, enrich, manager, hookVars>>

\* socket.on("join-room")
JoinRoom(s, room) ==
    /\ Ready
    /\ sockets[s].conn
    /\ sockets' = [sockets EXCEPT ![s].rooms = @ \cup {room}]
    /\ user' = [user EXCEPT ![s].rooms = @ \cup {room}, ![s].idle = 0]
    /\ last' = [NoCall EXCEPT !.op = "socket.join-room", !.arg = s, !.mode = room,
                  !.found = s \in MapKeys(users),
                  !.before = MapKeys(users), !.wasOpen = Connected(sockets),
                  !.targets = {s}, !.delivered = {s}]
    /\ UNCHANGED <<users, pending, activeSockets, sseVars, timer, enrich, manager, hookVars>>

\* socket.on("leave-room")
LeaveRoom(s, room) ==
    /\ Ready
    /\ sockets[s].conn
    /\ sockets' = [sockets EXCEPT ![s].rooms = @ \ {room}]
    /\ user' = [user EXCEPT ![s].rooms = @ \ {room}, ![s].idle = 0]
    /\ last' = [NoCall EXCEPT !.op = "socket.leave-room", !.arg = s, !.mode = room,
                  !.found = s \in MapKeys(users),
                  !.before = MapKeys(users), !.wasOpen = Connected(sockets),
                  !.targets = {s}, !.delivered = {s}]
    /\ UNCHANGED <<users, pending, activeSockets, sseVars, timer, enrich, manager, hookVars>>

\* socket.on("custom-event")
CustomEvent(s) ==
    /\ Ready
    /\ sockets[s].conn
    /\ user' = [user EXCEPT ![s].idle = 0]
    /\ last' = [NoCall EXCEPT !.op = "socket.custom-event", !.arg = s,
                  !.before = MapKeys(users), !.wasOpen = Connected(sockets),
                  !.targets = {s}, !.delivered = {s}]
    /\ UNCHANGED <<users, sockets, pending, activeSockets, sseVars, timer, enrich, manager, hookVars>>

\* socket.on("ping")
Ping(s) ==
    /\ Ready
    /\ sockets[s].conn
    /\ user' = [user EXCEPT ![s].idle = 0]
    /\ last' = [NoCall EXCEPT !.op = "socket.ping", !.arg = s,
                  !.before = MapKeys(users), !.wasOpen = Connected(sockets),
                  !.targets = {s}, !.delivered = {s}]
    /\ UNCHANGED <<users, sockets, pending, activeSockets, sseVars, timer, enrich, manager, hookVars>>

\* The events useSSE emits that server.js registers no listener for: the
\* message arrives and nothing runs.
UnlistenedEvents == {"subscribe", "send-message"}
Unlistened(s, event) ==
    /\ Ready
    /\ sockets[s].conn
    /\ last' = [NoCall EXCEPT !.op = "socket.unlistened", !.arg = s, !.mode = event,
                  !.found = s \in MapKeys(users),
                  !.before = MapKeys(users), !.wasOpen = Connected(sockets)]
    /\ UNCHANGED <<sockVars, sseVars, timer, enrich, manager, hookVars>>

\* The record of socket s as `users` holds it.
Record(usr, s) == [id |-> s, userId |-> usr[s].userId, named |-> usr[s].named]

\* A step of a removal: the socket is closed ("close"), it leaves its rooms
\* ("purge"), the record is deleted from `users` ("remove"), the disconnection
\* is announced ("announce").
Step(name, s) == [step |-> name, id |-> s]

\* socket.disconnect() or a closed transport, and the "disconnect" handler of
\* socket s, on st = [users, sockets, activeSockets, events, steps]; the
\* library has taken the socket out of its rooms before the handler runs.
\* u = users.get(id) gives the identity of user:disconnected, if it is there.
disconnect(st, usr, s) ==
    LET found == s \in MapKeys(st.users)
        us2 == MapDelete(st.users, {s})
        act2 == st.activeSockets \ {s}
    IN  [users |-> us2,
         sockets |-> [st.sockets EXCEPT ![s] = NoSocket],
         activeSockets |-> act2,
         steps |-> st.steps
            \o <<Step("close", s), Step("purge", s)>>
            \o (IF found THEN <<Step("remove", s)>> ELSE <<>>)
            \o <<Step("announce", s)>>,
         events |-> st.events
            \o <<Ev("connection-update", "disconnection", s, Len(us2), None, FALSE)>>
            \o (IF s \in st.activeSockets
                THEN <<Presence("offline", s, act2)>>
                ELSE <<>>)
            \o <<Ev("user:disconnected", "", s, 0,
                    IF found THEN usr[s].userId ELSE None,
                    found /\ usr[s].named)>>]

\* socket.on("disconnect")
Disconnect(s) ==
    LET r == disconnect([users |-> users, sockets |-> sockets,
                         activeSockets |-> activeSockets, events |-> <<>>,
                         steps |-> <<>>], user, s)
    IN  /\ Ready
        /\ sockets[s].conn
        /\ users' = r.users
        /\ user' = Closure(user, r.users, r.sockets, pending)
        /\ sockets' = r.sockets
        /\ activeSockets' = r.activeSockets
        /\ last' = [NoCall EXCEPT !.op = "socket.disconnect", !.arg = s,
                      !.before = MapKeys(users), !.wasOpen = Connected(sockets),
                      !.targets = io_emit(r.sockets), !.delivered = io_emit(r.sockets),
                      !.count = Len(r.users),
                      !.found = s \in MapKeys(users),
                      !.removed = {Record(user, t) : t \in MapKeys(users) \cap {s}},
                      !.events = r.events, !.steps = r.steps]
        /\ UNCHANGED <<pending, sseVars, timer, enrich, manager, hookVars>>

\* socket.on("error"): only the record is deleted; the socket stays as it is
\* (a transport error closes it afterwards, which is Disconnect).
SocketError(s) ==
    /\ Ready
    /\ sockets[s].conn
    /\ users' = MapDelete(users, {s})
    /\ last' = [NoCall EXCEPT !.op = "socket.error", !.arg = s,
                  !.before = MapKeys(users), !.wasOpen = Connected(sockets),
                  !.count = Len(users'),
                  !.found = s \in MapKeys(users),
                  !.removed = {Record(user, t) : t \in MapKeys(users) \cap {s}}]
    /\ UNCHANGED <<user, sockets, pending, activeSockets, sseVars, timer, enrich, manager, hookVars>>

\* The loop of the 30 s interval over `todo`, the stale ids in Map order:
\* users.delete(id), then disconnect() of the socket if there still is one,
\* which runs its "disconnect" handler.
RECURSIVE SweepEach(_, _, _)
SweepEach(st, usr, todo) ==
    IF todo = <<>> THEN st
    ELSE LET s == Head(todo)
             st1 == [st EXCEPT !.users = MapDelete(@, {s}),
                               !.steps = Append(@, Step("remove", s))]
             st2 == IF st.sockets[s].conn THEN disconnect(st1, usr, s) ELSE st1
         IN  SweepEach(st2, usr, Tail(todo))

\* The callback of the 30 s interval runs: delete every record idle for more
\* than inactiveThreshold and disconnect its socket, if it still has one.
SweepFires ==
    LET stale == SelectSeq(users, LAMBDA s : user[s].idle > inactiveThreshold)
        r == SweepEach([users |-> users, sockets |-> sockets,
                        activeSockets |-> activeSockets, events |-> <<>>,
                        steps |-> <<>>], user, stale)
    IN  /\ Ready
        /\ users' = r.users
        /\ user' = Closure(user, r.users, r.sockets, pending)
        /\ sockets' = r.sockets
        /\ activeSockets' = r.activeSockets
        /\ last' = [NoCall EXCEPT !.op = "socket.sweep",
                      !.before = MapKeys(users), !.wasOpen = Connected(sockets),
                      !.targets = MapKeys(stale), !.delivered = io_emit(sockets),
                      !.count = Len(stale),
                      !.found = stale # <<>>,
                      !.removed = {Record(user, t) : t \in MapKeys(stale)},
                      !.events = r.events, !.steps = r.steps]
        /\ UNCHANGED <<pending, sseVars, enrich, manager, hookVars>>

\* The 30 s interval, at any moment.
HeartbeatSweep == SweepFires /\ UNCHANGED timer

\* The 30 s interval, on time: the callback runs when SweepIntervalMs have
\* passed since it ran last, before more time passes.
TimedSweep ==
    /\ timer.sweep = SweepIntervalMs
    /\ SweepFires
    /\ timer' = [timer EXCEPT !.sweep = 0]

\* The comparison with `<` in place of `<=`.
isActive_Strict(idle) == idle < ACTIVE_WINDOW_MS

\* isActive = now - user.lastActive.getTime() <= ACTIVE_WINDOW_MS
isActive(idle) == idle <= ACTIVE_WINDOW_MS

\* The presence loop without the `wasActive` edge test on the inactive branch:
\* a record past the window is reported inactive at every tick.
RECURSIVE PresenceEach_EveryTick(_, _, _)
PresenceEach_EveryTick(st, usr, todo) ==
    IF todo = <<>> THEN st
    ELSE LET s == Head(todo)
             wasActive == s \in st.activeSockets
             nowActive == isActive(usr[s].idle)
             st2 == IF nowActive /\ ~wasActive
                    THEN LET act == st.activeSockets \cup {s}
                         IN  [activeSockets |-> act,
                              events |-> st.events
                                 \o <<Presence("active", s, act),
                                      Ev("user:active", "", s, 0, usr[s].userId,
                                         usr[s].named)>>]
                    ELSE IF ~nowActive
                    THEN LET act == st.activeSockets \ {s}
                         IN  [activeSockets |-> act,
                              events |-> st.events
                                 \o <<Presence("inactive", s, act)>>]
                    ELSE st
         IN  PresenceEach_EveryTick(st2, usr, Tail(todo))

\* The presence loop without the user:active notification on reactivation.
RECURSIVE PresenceEach_PresenceOnly(_, _, _)
PresenceEach_PresenceOnly(st, usr, todo) ==
    IF todo = <<>> THEN st
    ELSE LET s == Head(todo)
             wasActive == s \in st.activeSockets
             nowActive == isActive(usr[s].idle)
             st2 == IF nowActive /\ ~wasActive
                    THEN LET act == st.activeSockets \cup {s}
                         IN  [activeSockets |-> act,
                              events |-> st.events
                                 \o <<Presence("active", s, act)>>]
                    ELSE IF ~nowActive /\ wasActive
                    THEN LET act == st.activeSockets \ {s}
                         IN  [activeSockets |-> act,
                              events |-> st.events
                                 \o <<Presence("inactive", s, act)>>]
                    ELSE st
         IN  PresenceEach_PresenceOnly(st2, usr, Tail(todo))

\* The presence loop building its events from the active set as it was before
\* the change.
RECURSIVE PresenceEach_SnapshotBefore(_, _, _)
PresenceEach_SnapshotBefore(st, usr, todo) ==
    IF todo = <<>> THEN st
    ELSE LET s == Head(todo)
             wasActive == s \in st.activeSockets
             nowActive == isActive(usr[s].idle)
             st2 == IF nowActive /\ ~wasActive
                    THEN [activeSockets |-> st.activeSockets \cup {s},
                          events |-> st.events
                             \o <<Presence("active", s, st.activeSockets),
                                  Ev("user:active", "", s, 0, usr[s].userId,
                                     usr[s].named)>>]
                    ELSE IF ~nowActive /\ wasActive
                    THEN [activeSockets |-> st.activeSockets \ {s},
                          events |-> st.events
                             \o <<Presence("inactive", s, st.activeSockets)>>]
                    ELSE st
         IN  PresenceEach_SnapshotBefore(st2, usr, Tail(todo))

\* The loop of the presence interval over `todo`, the registered ids in Map
\* order, on st = [activeSockets, events].
RECURSIVE PresenceEach(_, _, _)
PresenceEach(st, usr, todo) ==
    IF todo = <<>> THEN st
    ELSE LET s == Head(todo)
             wasActive == s \in st.activeSockets
             nowActive == isActive(usr[s].idle)
             st2 == IF nowActive /\ ~wasActive
                    THEN LET act == st.activeSockets \cup {s}
                         IN  [activeSockets |-> act,
                              events |-> st.events
                                 \o <<Presence("active", s, act),
                                      Ev("user:active", "", s, 0, usr[s].userId,
                                         usr[s].named)>>]
                    ELSE IF ~nowActive /\ wasActive
                    THEN LET act == st.activeSockets \ {s}
                         IN  [activeSockets |-> act,
                              events |-> st.events
                                 \o <<Presence("inactive", s, act)>>]
                    ELSE st
         IN  PresenceEach(st2, usr, Tail(todo))

\* The presence interval: a record touched within ACTIVE_WINDOW_MS becomes
\* active, any other registered one inactive.
PresenceTick ==
    LET r == PresenceEach([activeSockets |-> activeSockets, events |-> <<>>],
                          user, users)
        act == r.activeSockets
    IN  /\ Ready
        /\ activeSockets' = act
        /\ last' = [NoCall EXCEPT !.op = "socket.presence",
                      !.before = MapKeys(users), !.wasOpen = Connected(sockets),
                      !.targets = (act \ activeSockets) \cup (activeSockets \ act),
                      !.delivered = IF act = activeSockets THEN {} ELSE io_emit(sockets),
                      !.count = Cardinality(act),
                      !.events = r.events]
        /\ UNCHANGED <<users, user, sockets, pending, sseVars, timer, enrich, manager, hookVars>>

\* Time passes: d milliseconds for every record.
SockTick(d) ==
    /\ Ready
    /\ user' = [s \in Sockets |->
                  IF user[s] = NoUser THEN NoUser
                  ELSE [user[s] EXCEPT !.idle = Age(@, d)]]
    /\ user' # user
    /\ last' = [NoCall EXCEPT !.op = "socket.tick"]
    /\ UNCHANGED <<users, sockets, pending, activeSockets, sseVars, timer, enrich, manager, hookVars>>

\* Time passes while the sweep timer is kept: SweepIntervalMs, and no more
\* than the timer's period without its callback running.  Ages are exact up
\* to two periods past the inactivity threshold.
TimedSockCap == inactiveThreshold + 2 * SweepIntervalMs
TimedSockTick ==
    /\ Ready
    /\ timer.sweep < SweepIntervalMs
    /\ user' = [s \in Sockets |->
                  IF user[s] = NoUser THEN NoUser
                  ELSE [user[s] EXCEPT !.idle =
                           IF @ + SweepIntervalMs > TimedSockCap THEN TimedSockCap
                           ELSE @ + SweepIntervalMs]]
    /\ timer' = [timer EXCEPT !.sweep = @ + SweepIntervalMs]
    /\ last' = [NoCall EXCEPT !.op = "socket.tick"]
    /\ UNCHANGED <<users, sockets, pending, activeSockets, sseVars, enrich, manager, hookVars>>

(***************************************************************************)
(* server.js: the display name of a connection that gave a userId          *)
(***************************************************************************)
\* The handshake data a client may send and the profile the users API may
\* return; a field that is missing, null or "" is Empty.
AuthUserIds == {<<"u", "7">>, <<"u", "s", "r", "-", "0", "1", "2", "3", "4", "5">>}
AuthNames == {Empty, <<"a", "n", "n", "i", "e">>, <<"b", "o">>}
AuthEmails == {Empty, <<"c", "@", "y">>, <<"d", "@", "y">>}
ProfileNames == {Empty, <<"A", "n", "n">>, <<"B", "o", "b">>}
ProfileEmails == {Empty, <<"a", "@", "x">>, <<"b", "@", "x">>}
\* json?.user of a response that is not ok, or that has no user.
NoProfile == [name |-> Empty, email |-> Empty]
Profiles == [name : ProfileNames, email : ProfileEmails]

\* a || b on text
Or(a, b) == IF a # Empty THEN a ELSE b
\* t.slice(0, 8)
slice8(t) == SubSeq(t, 1, IF Len(t) < 8 THEN Len(t) ELSE 8)
\* `User ${user.userId.slice(0, 8)}`
UserPlaceholder(userId) == <<"U", "s", "e", "r", " ">> \o slice8(userId)

\* The chain with the profile's email taken before the client's display name.
usernameThen_EmailFirst(u, usr) ==
    Or(Or(Or(Or(u.name, u.email), usr.userName), usr.userEmail),
       UserPlaceholder(usr.userId))

\* .then: u?.name || user.userName || u?.email || user.userEmail || `User ...`
usernameThen(u, usr) ==
    Or(Or(Or(Or(u.name, usr.userName), u.email), usr.userEmail),
       UserPlaceholder(usr.userId))

\* .catch: user.userName || user.userEmail || `User ...`
usernameCatch(usr) ==
    Or(Or(usr.userName, usr.userEmail), UserPlaceholder(usr.userId))

\* io.on("connection"): the user record takes userId, userName and userEmail
\* from socket.handshake.auth, and the fetch starts.
Handshake(userId, userName, userEmail) ==
    /\ enrich.settled = "none"
    /\ enrich' = [userId |-> userId, userName |-> userName, userEmail |-> userEmail,
                  settled |-> "pending", username |-> Empty,
                  u |-> NoProfile]
    /\ UNCHANGED <<sseVars, sockVars, timer, last, manager, hookVars>>

\* The fetch resolves with profile u (NoProfile when the response is not ok):
\* displayName and the username of user:connected are the chain's value.
FetchThen(u) ==
    /\ enrich.settled = "pending"
    /\ enrich' = [enrich EXCEPT !.settled = "then", !.u = u,
                                !.username = usernameThen(u, enrich)]
    /\ UNCHANGED <<sseVars, sockVars, timer, last, manager, hookVars>>

\* The fetch rejects.
FetchCatch ==
    /\ enrich.settled = "pending"
    /\ enrich' = [enrich EXCEPT !.settled = "catch",
                                !.username = usernameCatch(enrich)]
    /\ UNCHANGED <<sseVars, sockVars, timer, last, manager, hookVars>>

NextEnrich ==
    \/ \E userId \in AuthUserIds, userName \in AuthNames, userEmail \in AuthEmails :
          Handshake(userId, userName, userEmail)
    \/ \E u \in Profiles : FetchThen(u)
    \/ FetchCatch

SpecEnrich == Init /\ [][NextEnrich]_vars

(***************************************************************************)
(* lib/socket/server.ts: the SocketManager singleton                       *)
(***************************************************************************)
\* startHeartbeat: this.heartbeatInterval = setInterval(..., 30000); the handle
\* the field held before is overwritten, its interval is not cleared.
startHeartbeat(m) ==
    [m EXCEPT !.heartbeatInterval = m.issued + 1,
              !.running = @ \cup {m.issued + 1},
              !.issued = @ + 1]

\* initialize(server): a new Socket.IO server, its handlers, the heartbeat.
\* Connections stay with the manager; they are served by the server in `io`.
Initialize ==
    /\ Ready
    /\ manager.issued < MaxTimers
    /\ manager' = startHeartbeat([manager EXCEPT !.io = "open"])
    /\ last' = [NoCall EXCEPT !.op = "manager.initialize",
                  !.count = Cardinality(manager'.running)]
    /\ UNCHANGED <<sseVars, sockVars, timer, enrich, hookVars>>

\* cleanup(): clear the interval whose handle the field holds, close the
\* server (every socket is disconnected, which runs handleDisconnect), clear
\* `users`.  The field keeps the cleared handle.
Cleanup ==
    /\ Ready
    /\ manager.io # "null"
    /\ manager' = [manager EXCEPT
                      !.running = @ \ {manager.heartbeatInterval},
                      !.due = @ \ {manager.heartbeatInterval},
                      !.io = "closed",
                      !.conn = {},
                      !.users = [s \in Sockets |-> NoRecord]]
    /\ last' = [NoCall EXCEPT !.op = "manager.cleanup",
                  !.count = Cardinality(manager'.running)]
    /\ UNCHANGED <<sseVars, sockVars, timer, enrich, hookVars>>

\* io.on("connection") of the manager: register the record.
ManagerConnection(s) ==
    /\ Ready
    /\ manager.io = "open"
    /\ s \notin manager.conn
    /\ manager.users[s] = NoRecord
    /\ manager' = [manager EXCEPT !.conn = @ \cup {s}, !.users[s] = 0]
    /\ last' = [NoCall EXCEPT !.op = "manager.connection", !.arg = s]
    /\ UNCHANGED <<sseVars, sockVars, timer, enrich, hookVars>>

\* socket.on("ping") of the manager.
ManagerPing(s) ==
    /\ Ready
    /\ s \in manager.conn
    /\ manager.users[s] > 0
    /\ manager' = [manager EXCEPT !.users[s] = 0]
    /\ last' = [NoCall EXCEPT !.op = "manager.ping", !.arg = s]
    /\ UNCHANGED <<sseVars, sockVars, timer, enrich, hookVars>>

\* socket.on("disconnect") of the manager: handleDisconnect(socket.id).
ManagerDisconnect(s) ==
    /\ Ready
    /\ s \in manager.conn
    /\ manager' = [manager EXCEPT !.conn = @ \ {s}, !.users[s] = NoRecord]
    /\ last' = [NoCall EXCEPT !.op = "manager.disconnect", !.arg = s,
                  !.found = manager.users[s] # NoRecord]
    /\ UNCHANGED <<sseVars, sockVars, timer, enrich, hookVars>>

\* One period of the heartbeat passes: every running interval becomes due,
\* every record is one period older (followed to one period past the
\* threshold).  No more than the period passes while an interval is due.
ManagerTick ==
    /\ Ready
    /\ manager.due = {}
    /\ manager.running # {} \/ \E s \in Sockets : manager.users[s] # NoRecord
    /\ manager' = [manager EXCEPT
                      !.due = manager.running,
                      !.users = [s \in Sockets |->
                                   IF @[s] = NoRecord
                                      \/ @[s] > inactiveThreshold
                                   THEN @[s]
                                   ELSE @[s] + ManagerTickMs]]
    /\ manager' # manager
    /\ last' = [NoCall EXCEPT !.op = "manager.tick"]
    /\ UNCHANGED <<sseVars, sockVars, timer, enrich, hookVars>>

\* The callback of the interval with handle h runs: emit "heartbeat", delete
\* every record idle for more than five minutes and disconnect its socket.
ManagerHeartbeat(h) ==
    LET stale == {s \in Sockets : manager.users[s] > inactiveThreshold}
    IN  /\ Ready
        /\ h \in manager.due
        /\ manager' = [manager EXCEPT
                          !.due = @ \ {h},
                          !.users = [s \in Sockets |->
                                       IF s \in stale THEN NoRecord ELSE @[s]],
                          !.conn = @ \ stale]
        /\ last' = [NoCall EXCEPT !.op = "manager.heartbeat", !.arg = h,
                      !.targets = stale,
                      !.delivered = manager.conn,
                      !.count = Cardinality(manager.running)]
        /\ UNCHANGED <<sseVars, sockVars, timer, enrich, hookVars>>

NextManager ==
    \/ Initialize
    \/ Cleanup
    \/ \E s \in Sockets : ManagerConnection(s)
    \/ \E s \in Sockets : ManagerPing(s)
    \/ \E s \in Sockets : ManagerDisconnect(s)
    \/ ManagerTick
    \/ \E h \in Timers : ManagerHeartbeat(h)
    \/ Return

SpecManager == Init /\ [][NextManager]_vars

(***************************************************************************)
(* hooks/useSSE.ts: the client hook and the shared socket registry         *)
(***************************************************************************)
\* What the functions of a hook work on: the registry entry, the sockets, and
\* the refs and status of every hook.
HookState == [reg |-> socketRegistry, socks |-> clientSocket, hooks |-> hook]

\* socket.connect() of socket.io-client: nothing on a socket that is connected
\* or is connecting already.
socket_connect(sk) ==
    IF sk.connected \/ sk.connecting THEN sk ELSE [sk EXCEPT !.connecting = TRUE]

\* initializeSocket of hook h: take the socket of the registry entry, counting
\* one more reference and attaching the hook's listeners unless
\* socketListenerRef holds listeners already; without an entry, make a socket,
\* attach the listeners and register it with refCount 1.
initializeSocket(st, h) ==
    IF st.reg.socket # None
    THEN LET k == st.reg.socket
         IN  [reg |-> [st.reg EXCEPT !.refCount = @ + 1],
              socks |-> IF st.hooks[h].listening THEN st.socks
                        ELSE [st.socks EXCEPT ![k].listeners = @ \cup {h}],
              hooks |-> [st.hooks EXCEPT ![h].socketRef = k, ![h].listening = TRUE]]
    ELSE LET k == CHOOSE j \in ClientSockets :
                      /\ ~st.socks[j].made
                      /\ \A i \in ClientSockets : ~st.socks[i].made => j <= i
         IN  [reg |-> [socket |-> k, refCount |-> 1],
              socks |-> [st.socks EXCEPT ![k] = [NoClientSocket EXCEPT
                                                    !.made = TRUE, !.listeners = {h}]],
              hooks |-> [st.hooks EXCEPT ![h].socketRef = k, ![h].listening = TRUE]]

\* handleReconnect on the refs and status hk of a hook: report the limit, or
\* count the attempt and set the timeout that makes it.
handleReconnect(hk) ==
    IF hk.reconnectCount >= reconnectAttempts
    THEN [hk EXCEPT !.error = "max"]
    ELSE [hk EXCEPT !.reconnectCount = @ + 1, !.connecting = TRUE,
                    !.reconnectAttempts = hk.reconnectCount + 1,
                    !.pending = @ + 1, !.latest = TRUE]

\* The per-hook listeners of buildPerHookListeners; `reconnect` is true.
onConnect(hk) ==
    [hk EXCEPT !.connected = TRUE, !.connecting = FALSE, !.error = "",
               !.reconnectAttempts = 0, !.reconnectCount = 0, !.attempts = 0]
onDisconnect(hk, reason) ==
    LET h1 == [hk EXCEPT !.connected = FALSE, !.connecting = FALSE]
    IN  IF reason # "io client disconnect" THEN handleReconnect(h1) ELSE h1
onConnectError(hk) ==
    handleReconnect([hk EXCEPT !.connecting = FALSE, !.error = "conn"])

\* The "event" messages a socket receives: evt.type and, in evt.data,
\* totalConnections (None when it is no number), activeIds (hasIds when it is
\* an array), socketId and state.
ClientEvents ==
    [type : {"presence"}, totalConnections : {None}, hasIds : {TRUE},
     activeIds : {{}, {1}}, socketId : {1}, state : {"active"}]
    \cup [type : {"presence"}, totalConnections : {None}, hasIds : {FALSE},
          activeIds : {{}}, socketId : {1}, state : {"active", "offline"}]
    \cup [type : {"connection-update"}, totalConnections : {1}, hasIds : {FALSE},
          activeIds : {{}}, socketId : {None}, state : {""}]
    \cup [type : {"notification"}, totalConnections : {None}, hasIds : {FALSE},
          activeIds : {{}}, socketId : {None}, state : {""}]

\* onEvent: what it stores, and the handlers of eventHandlersRef it calls, in
\* order: for a presence event the "presence" handler inside the presence
\* branch, then for every type the handler under evt.type.
onEvent(hk, ev) ==
    [hk EXCEPT
        !.totalConnections =
            IF ev.type = "connection-update" /\ ev.totalConnections # None
            THEN ev.totalConnections ELSE @,
        !.activeIds =
            IF ev.type # "presence" THEN @
            ELSE IF ev.hasIds THEN ev.activeIds
            ELSE IF ev.state = "active" THEN @ \cup {ev.socketId}
            ELSE IF ev.state \in {"inactive", "offline"} THEN @ \ {ev.socketId}
            ELSE @]
onEvent_invoked(hk, ev) ==
    (IF ev.type = "presence" /\ "presence" \in hk.handlers
     THEN <<"presence">> ELSE <<>>)
    \o (IF ev.type \in hk.handlers THEN <<ev.type>> ELSE <<>>)

\* The handler calls of the hooks in `todo`, lowest hook first, as records
\* [hook, type].
RECURSIVE InvokedBy(_, _, _)
InvokedBy(hs, todo, ev) ==
    IF todo = {} THEN <<>>
    ELSE LET h == CHOOSE x \in todo : \A y \in todo : x <= y
             calls == onEvent_invoked(hs[h], ev)
         IN  [i \in 1..Len(calls) |-> [hook |-> h, type |-> calls[i]]]
             \o InvokedBy(hs, todo \ {h}, ev)

\* disconnect() of hook h: clear the timeout reconnectTimeoutRef holds and the
\* heartbeat; give up the socket, and when the count reaches 0 detach this
\* hook's listeners, disconnect the socket (which tells the listeners still
\* attached "io client disconnect") and delete the entry; reset the status.
useSSE_disconnect(st, h) ==
    LET hk == st.hooks[h]
        e == st.reg.socket
        holds == hk.socketRef # None /\ e # None
        lastOne == holds /\ st.reg.refCount - 1 <= 0
        others == IF lastOne THEN st.socks[e].listeners \ {h} ELSE {}
        told == IF lastOne /\ st.socks[e].connected THEN others ELSE {}
    IN  [reg |-> IF lastOne THEN NoEntry
                 ELSE IF holds THEN [st.reg EXCEPT !.refCount = @ - 1]
                 ELSE st.reg,
         socks |-> IF lastOne THEN [st.socks EXCEPT ![e] = NoClientSocket]
                   ELSE st.socks,
         hooks |-> [g \in Hooks |->
                      IF g = h
                      THEN [hk EXCEPT !.pending = IF hk.latest THEN @ - 1 ELSE @,
                                      !.latest = FALSE, !.heartbeat = FALSE,
                                      !.socketRef = None,
                                      !.connected = FALSE, !.connecting = FALSE,
                                      !.error = "", !.reconnectAttempts = 0,
                                      !.reconnectCount = 0, !.attempts = 0]
                      ELSE IF g \in told
                      THEN onDisconnect(st.hooks[g], "io client disconnect")
                      ELSE st.hooks[g]],
         told |-> told]

\* connect() of hook h.
HookConnect(h) ==
    LET already == hook[h].socketRef # None /\ clientSocket[hook[h].socketRef].connected
        st0 == [HookState EXCEPT !.hooks[h].connecting = TRUE, !.hooks[h].attempts = 0]
        st1 == initializeSocket(st0, h)
        k == st1.hooks[h].socketRef
        st2 == [st1 EXCEPT !.hooks[h].heartbeat = TRUE, !.socks[k] = socket_connect(@)]
        r == IF already THEN HookState ELSE st2
    IN  /\ Ready
        /\ ~already => socketRegistry.refCount < MaxRefCount
        /\ socketRegistry' = r.reg
        /\ clientSocket' = r.socks
        /\ hook' = r.hooks
        /\ last' = [NoCall EXCEPT !.op = "hook.connect", !.arg = h, !.ok = ~already,
                      !.count = r.reg.refCount]
        /\ UNCHANGED <<sseVars, sockVars, timer, enrich, manager>>

\* disconnect() of hook h (also the cleanup of its effect on unmount).
HookDisconnect(h) ==
    LET r == useSSE_disconnect(HookState, h)
    IN  /\ Ready
        /\ socketRegistry' = r.reg
        /\ clientSocket' = r.socks
        /\ hook' = r.hooks
        /\ last' = [NoCall EXCEPT !.op = "hook.disconnect", !.arg = h,
                      !.found = hook[h].socketRef # None,
                      !.targets = r.told, !.count = r.reg.refCount]
        /\ UNCHANGED <<sseVars, sockVars, timer, enrich, manager>>

\* A reconnect timeout of hook h fires: the one reconnectTimeoutRef holds
\* (isLatest) or an earlier one that was never cleared.
ReconnectTimeout(h, isLatest) ==
    LET st0 == [HookState EXCEPT !.hooks[h].pending = @ - 1,
                                 !.hooks[h].latest = IF isLatest THEN FALSE ELSE @]
        st1 == IF hook[h].socketRef = None THEN initializeSocket(st0, h) ELSE st0
        k == st1.hooks[h].socketRef
        starts == ~st1.socks[k].connected /\ ~st1.socks[k].connecting
        st2 == [st1 EXCEPT !.socks[k] = socket_connect(@),
                           !.hooks[h].attempts =
                               IF starts /\ @ <= reconnectAttempts THEN @ + 1 ELSE @]
    IN  /\ Ready
        /\ hook[h].pending > 0
        /\ IF isLatest THEN hook[h].latest
           ELSE hook[h].pending > (IF hook[h].latest THEN 1 ELSE 0)
        /\ hook[h].socketRef = None => socketRegistry.refCount < MaxRefCount
        /\ socketRegistry' = st2.reg
        /\ clientSocket' = st2.socks
        /\ hook' = st2.hooks
        /\ last' = [NoCall EXCEPT !.op = "hook.reconnect", !.arg = h, !.ok = starts,
                      !.count = st2.hooks[h].attempts]
        /\ UNCHANGED <<sseVars, sockVars, timer, enrich, manager>>

\* The hooks whose handleReconnect may set one more timeout.
CanSchedule(L) ==
    \A h \in L : hook[h].reconnectCount < reconnectAttempts => hook[h].pending < MaxPending

\* Socket k connects: "connect" goes to every listener attached.
SocketConnects(k) ==
    LET L == clientSocket[k].listeners
    IN  /\ Ready
        /\ clientSocket[k].connecting
        /\ clientSocket' = [clientSocket EXCEPT ![k].connecting = FALSE,
                                                ![k].connected = TRUE]
        /\ hook' = [h \in Hooks |-> IF h \in L THEN onConnect(hook[h]) ELSE hook[h]]
        /\ last' = [NoCall EXCEPT !.op = "client.connect", !.arg = k, !.targets = L]
        /\ UNCHANGED <<socketRegistry, sseVars, sockVars, timer, enrich, manager>>

\* The connection attempt of socket k fails: "connect_error".
SocketConnectError(k) ==
    LET L == clientSocket[k].listeners
    IN  /\ Ready
        /\ clientSocket[k].connecting
        /\ CanSchedule(L)
        /\ clientSocket' = [clientSocket EXCEPT ![k].connecting = FALSE]
        /\ hook' = [h \in Hooks |-> IF h \in L THEN onConnectError(hook[h]) ELSE hook[h]]
        /\ last' = [NoCall EXCEPT !.op = "client.connect_error", !.arg = k,
                      !.targets = L,
                      !.wasOpen = {h \in L : hook[h].reconnectCount >= reconnectAttempts},
                      !.delivered = {h \in L : hook'[h].pending > hook[h].pending}]
        /\ UNCHANGED <<socketRegistry, sseVars, sockVars, timer, enrich, manager>>

\* The server or the transport ends the connection of socket k: "disconnect"
\* with a reason other than "io client disconnect".
ServerDisconnect(k) ==
    LET L == clientSocket[k].listeners
    IN  /\ Ready
        /\ clientSocket[k].connected
        /\ CanSchedule(L)
        /\ clientSocket' = [clientSocket EXCEPT ![k].connected = FALSE]
        /\ hook' = [h \in Hooks |->
                      IF h \in L THEN onDisconnect(hook[h], "transport close")
                      ELSE hook[h]]
        /\ last' = [NoCall EXCEPT !.op = "client.disconnect", !.arg = k,
                      !.targets = L,
                      !.wasOpen = {h \in L : hook[h].reconnectCount >= reconnectAttempts},
                      !.delivered = {h \in L : hook'[h].pending > hook[h].pending}]
        /\ UNCHANGED <<socketRegistry, sseVars, sockVars, timer, enrich, manager>>

\* addHandler(type, handler) and removeHandler(type) of hook h.
AddHandler(h, type) ==
    /\ Ready
    /\ type \notin hook[h].handlers
    /\ hook' = [hook EXCEPT ![h].handlers = @ \cup {type}]
    /\ last' = [NoCall EXCEPT !.op = "hook.addHandler", !.arg = h, !.mode = type]
    /\ UNCHANGED <<socketRegistry, clientSocket, sseVars, sockVars, timer, enrich,
                   manager>>
RemoveHandler(h, type) ==
    /\ Ready
    /\ type \in hook[h].handlers
    /\ hook' = [hook EXCEPT ![h].handlers = @ \ {type}]
    /\ last' = [NoCall EXCEPT !.op = "hook.removeHandler", !.arg = h, !.mode = type]
    /\ UNCHANGED <<socketRegistry, clientSocket, sseVars, sockVars, timer, enrich,
                   manager>>

\* Socket k receives an "event" message: onEvent of every listener attached.
ReceiveEvent(k, ev) ==
    LET L == clientSocket[k].listeners
    IN  /\ Ready
        /\ clientSocket[k].connected
        /\ hook' = [h \in Hooks |-> IF h \in L THEN onEvent(hook[h], ev) ELSE hook[h]]
        /\ last' = [NoCall EXCEPT !.op = "client.event", !.arg = k, !.mode = ev.type,
                      !.targets = L, !.invoked = InvokedBy(hook, L, ev)]
        /\ UNCHANGED <<socketRegistry, clientSocket, sseVars, sockVars, timer, enrich,
                       manager>>

\* Hooks connecting and disconnecting, the socket connecting, failing and being
\* dropped, and the reconnect timeouts.
NextHook ==
    \/ \E h \in Hooks : HookConnect(h)
    \/ \E h \in Hooks : HookDisconnect(h)
    \/ \E h \in Hooks, isLatest \in BOOLEAN : ReconnectTimeout(h, isLatest)
    \/ \E k \in ClientSockets : SocketConnects(k)
    \/ \E k \in ClientSockets : SocketConnectError(k)
    \/ \E k \in ClientSockets : ServerDisconnect(k)
    \/ Return

SpecHook == Init /\ [][NextHook]_vars

\* Hooks with their handlers on a socket that connects and receives events.
NextHookEvents ==
    \/ \E h \in Hooks : HookConnect(h)
    \/ \E h \in Hooks : HookDisconnect(h)
    \/ \E k \in ClientSockets : SocketConnects(k)
    \/ \E h \in Hooks, type \in EventTypes : AddHandler(h, type)
    \/ \E h \in Hooks, type \in EventTypes : RemoveHandler(h, type)
    \/ \E k \in ClientSockets, ev \in ClientEvents : ReceiveEvent(k, ev)
    \/ Return

SpecHookEvents == Init /\ [][NextHookEvents]_vars

(***************************************************************************)
(* lib/socket/utils.ts: send helpers over global.io and global.socketUsers *)
(***************************************************************************)
\* Array.from(users.values()).find(...): the first record in Map order.
FindUser(us, usr, u) ==
    LET hits == {i \in DOMAIN us : usr[us[i]].userId = u}
    IN  IF hits = {} THEN None
        ELSE us[CHOOSE i \in hits : \A j \in hits : i <= j]

\* sendToUser(userId, notification)
sendToUser(us, usr, sk, u) ==
    LET s == FindUser(us, usr, u)
    IN  IF s # None
        THEN [tried |-> {s}, got |-> io_to_socket(sk, s), ok |-> TRUE]
        ELSE [tried |-> {}, got |-> {}, ok |-> FALSE]

\* sendToSocket(socketId, notification)
sendToSocket(sk, s) == [tried |-> {s}, got |-> io_to_socket(sk, s)]

\* sendToRoom(room, notification)
sendToRoom(sk, room) == [tried |-> io_to_room(sk, room), got |-> io_to_room(sk, room)]

\* broadcast(notification)
broadcast(sk) == [tried |-> io_emit(sk), got |-> io_emit(sk)]

\* sendToUsers(userIds, notification): every record whose userId is listed.
sendToUsers(us, usr, sk, ids) ==
    LET socketIds == {s \in MapKeys(us) : usr[s].userId \in ids}
    IN  [tried |-> socketIds,
         got |-> UNION {sendToSocket(sk, s).got : s \in socketIds}]

SocketSendToUser(u) ==
    LET r == sendToUser(users, user, sockets, u)
    IN  /\ Ready
        /\ last' = [NoCall EXCEPT !.op = "socket.sendToUser", !.arg = u,
                      !.before = MapKeys(users), !.wasOpen = Connected(sockets),
                      !.targets = r.tried, !.delivered = r.got, !.ok = r.ok,
                      !.count = IF r.ok THEN 1 ELSE 0]
        /\ UNCHANGED <<sockVars, sseVars, timer, enrich, manager, hookVars>>

SocketSendToSocket(s) ==
    LET r == sendToSocket(sockets, s)
    IN  /\ Ready
        /\ last' = [NoCall EXCEPT !.op = "socket.sendToSocket", !.arg = s,
                      !.before = MapKeys(users), !.wasOpen = Connected(sockets),
                      !.targets = r.tried, !.delivered = r.got]
        /\ UNCHANGED <<sockVars, sseVars, timer, enrich, manager, hookVars>>

SocketSendToRoom(room) ==
    LET r == sendToRoom(sockets, room)
    IN  /\ Ready
        /\ last' = [NoCall EXCEPT !.op = "socket.sendToRoom", !.mode = room,
                      !.before = MapKeys(users), !.wasOpen = Connected(sockets),
                      !.targets = r.tried, !.delivered = r.got]
        /\ UNCHANGED <<sockVars, sseVars, timer, enrich, manager, hookVars>>

SocketBroadcast ==
    LET r == broadcast(sockets)
    IN  /\ Ready
        /\ last' = [NoCall EXCEPT !.op = "socket.broadcast",
                      !.before = MapKeys(users), !.wasOpen = Connected(sockets),
                      !.targets = r.tried, !.delivered = r.got]
        /\ UNCHANGED <<sockVars, sseVars, timer, enrich, manager, hookVars>>

SocketSendToUsers(ids) ==
    LET r == sendToUsers(users, user, sockets, ids)
    IN  /\ Ready
        /\ last' = [NoCall EXCEPT !.op = "socket.sendToUsers", !.recips = ids,
                      !.before = MapKeys(users), !.wasOpen = Connected(sockets),
                      !.targets = r.tried, !.delivered = r.got]
        /\ UNCHANGED <<sockVars, sseVars, timer, enrich, manager, hookVars>>

NextSock ==
    \/ \E s \in Sockets, uid \in UserIds \cup {None} : Connection(s, uid)
    \/ \E s \in Sockets : Enriched(s)
    \/ \E s \in Sockets, room \in Rooms : JoinRoom(s, room)
    \/ \E s \in Sockets, room \in Rooms : LeaveRoom(s, room)
    \/ \E s \in Sockets : CustomEvent(s)
    \/ \E s \in Sockets : Ping(s)
    \/ \E s \in Sockets, event \in UnlistenedEvents : Unlistened(s, event)
    \/ \E s \in Sockets : Disconnect(s)
    \/ \E s \in Sockets : SocketError(s)
    \/ HeartbeatSweep
    \/ PresenceTick
    \/ \E d \in {SockTickMs, inactiveThreshold} : SockTick(d)
    \/ \E u \in UserIds : SocketSendToUser(u)
    \/ \E s \in Sockets : SocketSendToSocket(s)
    \/ \E room \in Channels : SocketSendToRoom(room)
    \/ SocketBroadcast
    \/ \E ids \in SUBSET UserIds : SocketSendToUsers(ids)
    \/ Return

SpecSock == Init /\ [][NextSock]_vars

\* Connections, touches and removals with the sweep timer on time.
NextSockTimed ==
    \/ \E s \in Sockets, uid \in UserIds \cup {None} : Connection(s, uid)
    \/ \E s \in Sockets : Enriched(s)
    \/ \E s \in Sockets : Ping(s)
    \/ \E s \in Sockets : Disconnect(s)
    \/ \E s \in Sockets : SocketError(s)
    \/ TimedSweep
    \/ TimedSockTick
    \/ Return

SpecSockTimed == Init /\ [][NextSockTimed]_vars

(***************************************************************************)
(* Properties of the push-stream fan-out                                   *)
(***************************************************************************)
\* Every record points at the stream that was opened under its client id, and a
\* client id is the user id whenever there is one.
RegistryConsistent ==
    \A c \in Keys(clients) :
        /\ stream[clients[c].ctrl].key = c
        /\ stream[clients[c].ctrl].userId = clients[c].userId
        /\ clients[c].userId \in {None, c}

\* The connections registered when the send started that belong to user u, that
\* carry connection id r, and those whose write could not succeed.
ConnectionsOf(u) == {s \in last.before : stream[s].userId = u}
ByConnectionId(r) == {s \in last.before : stream[s].key = r}
FailedWrites == last.targets \ last.wasOpen
StillRegistered == Controllers(clients)

IsPost == last.op = "POST" /\ last.mode # "malformed"
IsTargetedPost == last.op = "POST" /\ last.mode = "recipients" /\ last.recips # {}
IsFanOut == last.op \in {"sendToUser", "sendToChannel", "broadcast"} \/ IsPost

\* C1: sendToUser returns exactly the number of the user's connections whose
\* write succeeded, every connection of the user whose write failed is out of the
\* registry when it returns, and it raises nothing.
C1_SendToUserCountsSuccessfulWrites ==
    last.op = "sendToUser" =>
        /\ last.count = Cardinality(ConnectionsOf(last.arg) \cap last.wasOpen)
        /\ (ConnectionsOf(last.arg) \ last.wasOpen) \cap StillRegistered = {}
        /\ ~last.threw

\* C2: in every multi-target send a connection whose write fails is out of the
\* registry when the send returns and is not counted in the returned number.
C2_FailedWritePrunedAndNotCounted ==
    IsFanOut =>
        /\ FailedWrites \cap StillRegistered = {}
        /\ last.count = Cardinality(last.targets \cap last.wasOpen)

\* The targets a fan-out resolves: the user's connections, every registered
\* connection, or what the endpoint's target resolution produced.
ResolvedTargets ==
    CASE last.op = "sendToUser" -> ConnectionsOf(last.arg)
      [] last.op \in {"sendToChannel", "broadcast"} -> last.before
      [] OTHER -> last.targets

\* C3: a failed write never aborts the fan-out: every resolved target whose
\* transport is writable receives the event in the same call, and nothing is
\* raised to the caller.
C3_FailureDoesNotAbortFanOut ==
    IsFanOut =>
        /\ ~last.threw
        /\ last.delivered = ResolvedTargets \cap last.wasOpen

\* A fan-out in which one target's write failed and another target received.
C3_Witness ==
    /\ IsFanOut
    /\ FailedWrites # {}
    /\ last.delivered # {}

\* C4: sendToClient returns true only if the connection id is registered and the
\* write succeeded, false otherwise, and never throws.
C4_SendToClientTrueIffDelivered ==
    last.op = "sendToClient" =>
        /\ last.ok <=> (ByConnectionId(last.arg) \cap last.wasOpen # {})
        /\ ~last.threw

\* C6: sendToChannel delivers to exactly the connections joined to the channel
\* and returns how many it delivered to.
C6_SendToChannelReachesOnlyMembers ==
    last.op = "sendToChannel" =>
        /\ last.delivered =
             {s \in last.before \cap last.wasOpen : last.mode \in JoinedChannels(clients, s)}
        /\ last.count = Cardinality(last.delivered)

\* C7: broadcast delivers to every registered connection and returns the number
\* of connections it delivered to.
C7_BroadcastReturnsDeliveredCount ==
    last.op = "broadcast" =>
        /\ last.before \cap last.wasOpen \subseteq last.delivered
        /\ last.count = Cardinality(last.delivered)

\* No identifier of the recipient list is the connection id or the user id of a
\* registered connection.
NoRecipientResolves ==
    \A r \in last.recips : ByConnectionId(r) = {} /\ ConnectionsOf(r) = {}

\* C8: a targeted send whose non-empty recipient list resolves to no registered
\* connection delivers to no connection.
C8_NoBroadcastOnEmptyResolution ==
    (IsTargetedPost /\ NoRecipientResolves) => last.delivered = {}

\* The connection-id match of an identifier if there is one, else its user-id
\* matches.
Resolution(r) ==
    IF ByConnectionId(r) # {} THEN ByConnectionId(r) ELSE ConnectionsOf(r)

\* C9: each recipient identifier of a targeted send resolves to the connection
\* registered under that connection id, and only if there is none to the
\* connections whose user id equals it.
C9_ConnectionIdBeforeUserId ==
    (IsTargetedPost /\ ~NoRecipientResolves) =>
        last.targets = UNION {Resolution(r) : r \in last.recips}

\* A targeted send with a recipient that is a connection id and no user id (an
\* anonymous connection), next to another registered connection, that delivered.
C9_Witness ==
    /\ IsTargetedPost
    /\ \E r \in last.recips : ByConnectionId(r) # {} /\ ConnectionsOf(r) = {}
    /\ last.before \ last.targets # {}
    /\ last.delivered # {}

\* C10: sendSystemNotification aimed at a client, user or channel without a
\* targetId throws and delivers nothing.
C10_MissingTargetIdThrows ==
    (last.op = "sendSystemNotification" /\ last.mode # "all" /\ ~last.hasId) =>
        /\ last.threw
        /\ last.targets = {}
        /\ last.delivered = {}
        /\ StillRegistered = last.before

\* Such a call made while a writable connection was registered.
C10_Witness ==
    /\ last.op = "sendSystemNotification"
    /\ last.mode \in {"client", "user", "channel"}
    /\ ~last.hasId
    /\ last.threw
    /\ last.before \cap last.wasOpen # {}

(***************************************************************************)
(* Properties of the duplex-socket send helpers                            *)
(***************************************************************************)
\* The connected sockets whose registered record carries user id u.
SocketsOf(u) == {s \in last.before \cap last.wasOpen : user[s].userId = u}

\* C5: sendToUser(u) delivers to every connection of user u and to no other,
\* and reports success exactly when the user has a connection.
C5_SendToUserReachesAllConnectionsOfUser ==
    last.op = "socket.sendToUser" =>
        /\ last.delivered = SocketsOf(last.arg)
        /\ last.ok <=> SocketsOf(last.arg) # {}

(***************************************************************************)
(* Properties of the registries: registration, removal, membership         *)
(***************************************************************************)
\* C12: an abort listener that finds its connection id already taken out of the
\* registry (by the sweep, or by any other removal) does nothing: it raises no
\* error and announces no disconnection.
C12_AbortAfterRemovalDoesNothing ==
    (last.op = "abort" /\ ~last.found) =>
        /\ ~last.threw
        /\ last.events = <<>>

\* C13: a registration under a connection id that is already registered leaves
\* the existing record in place and the connection count as it was.
C13_DuplicateRegistrationRejected ==
    (last.op = "GET" /\ last.found) =>
        /\ clients[last.arg].ctrl \in last.before
        /\ Cardinality(Keys(clients)) = Cardinality(last.before)

SocketRemovals == {"socket.disconnect", "socket.error", "socket.sweep"}

\* C11: a removal that finds the record already gone returns nothing, leaves the
\* set of registered connections as it was and emits nothing.
C11_SecondRemovalHasNoEffect ==
    (last.op \in SocketRemovals /\ ~last.found) =>
        /\ last.removed = {}
        /\ MapKeys(users) = last.before
        /\ last.events = <<>>

\* C14: the continuation of the identity fetch of a connection whose record has
\* been removed does not put the record back.
C14_RemovedIdNotReinserted ==
    (last.op = "socket.enriched" /\ ~last.found) => last.arg \notin MapKeys(users)

\* The connection-update events of the handler that ran last.
ConnectionUpdates == SelectSeq(last.events, LAMBDA e : e.type = "connection-update")
Registered == MapKeys(users) \ last.before
Unregistered == last.before \ MapKeys(users)

\* C15: a handler emits exactly one connection-update for each connection it
\* registers and for each it removes.
C15_OneCountUpdatePerChange ==
    (last.op \in SocketRemovals \cup {"socket.connection", "socket.enriched"}) =>
        Len(ConnectionUpdates) = Cardinality(Registered) + Cardinality(Unregistered)

\* C16: for every removed record a connection-update of subtype disconnection
\* is emitted for it (with the count after removal when it is the only one
\* removed), and the removal is announced with the user id and the display name
\* the record had.
C16_DisconnectionCarriesCachedIdentity ==
    \A r \in last.removed :
        (last.op \in SocketRemovals) =>
            /\ \E i \in DOMAIN last.events :
                  /\ last.events[i].type = "connection-update"
                  /\ last.events[i].sub = "disconnection"
                  /\ last.events[i].id = r.id
                  /\ Cardinality(last.removed) = 1 => last.events[i].count = Len(users)
            /\ \E i \in DOMAIN last.events :
                  /\ last.events[i].type \in {"connection-update", "user:disconnected"}
                  /\ last.events[i].id = r.id
                  /\ last.events[i].userId = r.userId
                  /\ last.events[i].named = r.named

\* C17: for every registered connection and every group, the group is in the
\* connection's joined set exactly if the connection is in the group's room.
C17_MembershipAgreesWithRooms ==
    \A s \in MapKeys(users), g \in Channels :
        g \in user[s].rooms <=> g \in sockets[s].rooms

\* C18: a connection that has just been removed from the registry is in no room.
C18_RemovedConnectionInNoGroup ==
    (last.op \in SocketRemovals) =>
        \A r \in last.removed : io_to_socket(sockets, r.id) = {} /\ sockets[r.id].rooms = {}

\* C19: a join or a leave of a connection that is not registered changes no
\* room and no joined set, and raises nothing.
C19_JoinLeaveOfUnregisteredIsNoOp ==
    [][(last'.op \in {"socket.join-room", "socket.leave-room"} /\ ~last'.found) =>
          /\ \A t \in Sockets : sockets'[t].rooms = sockets[t].rooms
          /\ \A t \in Sockets : user'[t].rooms = user[t].rooms
          /\ ~last'.threw]_vars

\* C20: after a presence tick a registered connection is marked active exactly
\* if its idle age is at most ACTIVE_WINDOW_MS, the boundary included.
C20_ActiveIffWithinWindowInclusive ==
    last.op = "socket.presence" =>
        \A s \in MapKeys(users) :
            s \in activeSockets <=> user[s].idle <= ACTIVE_WINDOW_MS

\* A presence tick that turned active a connection whose idle age is exactly
\* ACTIVE_WINDOW_MS while another, older one is not active.
C20_Witness ==
    /\ last.op = "socket.presence"
    /\ \E s \in last.targets \cap MapKeys(users) :
          user[s].idle = ACTIVE_WINDOW_MS /\ s \in activeSockets
    /\ \E t \in MapKeys(users) :
          user[t].idle > ACTIVE_WINDOW_MS /\ t \notin activeSockets

\* The events of type `type` about connection s, in order, among `evs`.
EventsAbout(evs, type, s) == SelectSeq(evs, LAMBDA e : e.type = type /\ e.id = s)
\* A step in which a handler runs (and not one that takes its outcome).
HandlerRuns == last = NoCall /\ last' # NoCall

\* C21: a presence tick that finds a registered connection of the active set
\* past the window takes it out of the set and emits exactly one presence event
\* for it, of state inactive; no handler emits a presence event for a
\* registered connection that has been reported inactive and is still past the
\* window when the handler ends.
C21_OneInactiveEventPerTransition ==
    [][HandlerRuns =>
         \A s \in MapKeys(users) :
            /\ (/\ last'.op = "socket.presence"
                /\ s \in activeSockets
                /\ ~isActive(user[s].idle))
               => /\ s \notin activeSockets'
                  /\ Len(EventsAbout(last'.events, "presence", s)) = 1
                  /\ EventsAbout(last'.events, "presence", s)[1].sub = "inactive"
            /\ (/\ s \notin activeSockets
                /\ ~isActive(user[s].idle)
                /\ s \in MapKeys(users')
                /\ ~isActive(user'[s].idle))
               => EventsAbout(last'.events, "presence", s) = <<>>]_vars

\* A presence tick has just reported one connection inactive while another
\* registered one, reported inactive before and still past the window, got no
\* event.
C21_Witness ==
    /\ last.op = "socket.presence"
    /\ \E s \in MapKeys(users), t \in MapKeys(users) :
          /\ s # t
          /\ s \in last.targets /\ s \notin activeSockets
          /\ Len(EventsAbout(last.events, "presence", s)) = 1
          /\ t \notin last.targets /\ t \notin activeSockets
          /\ ~isActive(user[t].idle)
          /\ EventsAbout(last.events, "presence", t) = <<>>

\* C22: a presence tick that finds a registered connection outside the active
\* set but touched within the window puts it into the set and emits for it
\* exactly one presence event, of state active, and exactly one user:active;
\* a tick that finds it in the set and within the window emits neither.
C22_OneActiveEventAndOneNotificationOnReactivation ==
    [][(HandlerRuns /\ last'.op = "socket.presence") =>
         \A s \in MapKeys(users) :
            /\ (s \notin activeSockets /\ isActive(user[s].idle))
               => /\ s \in activeSockets'
                  /\ Len(EventsAbout(last'.events, "presence", s)) = 1
                  /\ EventsAbout(last'.events, "presence", s)[1].sub = "active"
                  /\ Len(EventsAbout(last'.events, "user:active", s)) = 1
            /\ (s \in activeSockets /\ isActive(user[s].idle))
               => /\ s \in activeSockets'
                  /\ EventsAbout(last'.events, "presence", s) = <<>>
                  /\ EventsAbout(last'.events, "user:active", s) = <<>>]_vars

\* A presence tick has just reported active again a connected socket that was
\* touched after it had been reported inactive, while another one that was
\* active before and is still within the window got no event.
C22_Witness ==
    /\ last.op = "socket.presence"
    /\ \E s \in MapKeys(users) \cap Connected(sockets), t \in MapKeys(users) :
          /\ s # t
          /\ s \in last.targets /\ s \in activeSockets /\ user[s].idle = 0
          /\ Len(EventsAbout(last.events, "presence", s)) = 1
          /\ Len(EventsAbout(last.events, "user:active", s)) = 1
          /\ t \notin last.targets /\ t \in activeSockets
          /\ isActive(user[t].idle)
          /\ EventsAbout(last.events, "presence", t) = <<>>

\* The presence events of the handler that ran last, in order.
PresenceEvents == SelectSeq(last.events, LAMBDA e : e.type = "presence")

\* C23: in every presence event the count is the size of the id list and the
\* changed id is in the list exactly if the state is active; the list is the
\* active set right after the change: it differs from the list of the
\* handler's previous presence event by the changed id alone, and the list of
\* the handler's last presence event is the active set the handler leaves.
C23_PresenceCarriesSnapshotAfterTransition ==
    LET pe == PresenceEvents
    IN  /\ \A i \in DOMAIN pe :
              /\ pe[i].count = Cardinality(pe[i].ids)
              /\ pe[i].id \in pe[i].ids <=> pe[i].sub = "active"
              /\ i > 1 => pe[i].ids \ {pe[i].id} = pe[i - 1].ids \ {pe[i].id}
        /\ pe # <<>> => pe[Len(pe)].ids = activeSockets

\* One presence tick has emitted two presence events: the first reports a
\* connection inactive with an empty list, the second reports another one
\* active with a list that holds just that one.
C23_Witness ==
    /\ Len(PresenceEvents) = 2
    /\ PresenceEvents[1].sub = "inactive"
    /\ PresenceEvents[2].sub = "active"
    /\ PresenceEvents[1].ids = {}
    /\ PresenceEvents[2].ids = {PresenceEvents[2].id}

\* C24: with the sweep on time, no registered connection is idle for more than
\* inactiveThreshold plus one sweep period, and a record the sweep removes
\* leaves no connected socket behind.
C24_EvictedWithinOneSweepOfThreshold ==
    /\ \A s \in MapKeys(users) : user[s].idle <= inactiveThreshold + SweepIntervalMs
    /\ last.op = "socket.sweep" =>
          \A r \in last.removed : r.id \notin MapKeys(users) /\ ~sockets[r.id].conn

\* C25: when the pruning sweep returns, every connection it found idle for
\* more than StaleMs has its stream closed and is out of the registry, and no
\* registered connection is idle for more than StaleMs; with the sweep on time
\* no registered connection is ever idle for more than StaleMs plus one sweep
\* period.
C25_StaleStreamPrunedWithinOneSweep ==
    /\ last.op = "cleanup" =>
          /\ \A s \in last.targets : ~stream[s].open /\ s \notin Controllers(clients)
          /\ \A c \in Keys(clients) : clients[c].idle <= StaleMs
    /\ \A c \in Keys(clients) : clients[c].idle <= StaleMs + CleanupIntervalMs

\* The sweep, on time, has just pruned a connection whose stream was open and
\* kept one that is idle for exactly StaleMs.
C25_Witness ==
    /\ last.op = "cleanup"
    /\ timer.cleanup = 0
    /\ last.targets \cap last.wasOpen # {}
    /\ \E c \in Keys(clients) : clients[c].idle = StaleMs

\* C26: a registration under an id that was not registered leaves a record
\* under that id whose idle age is 0 and a registry with exactly one record
\* more than before, on the socket server and on the push-stream route alike.
C26_RegistrationStampsAndCountsOne ==
    /\ last.op = "socket.connection" =>
          /\ last.arg \in MapKeys(users)
          /\ user[last.arg].idle = 0
          /\ Len(users) = Cardinality(last.before) + 1
          /\ last.count = Len(users)
    /\ (last.op = "GET" /\ ~last.found) =>
          /\ Has(clients, last.arg)
          /\ clients[last.arg].idle = 0
          /\ Cardinality(Keys(clients)) = Cardinality(last.before) + 1
          /\ last.count = Cardinality(Keys(clients))

\* A socket has just been registered next to an older record.
C26_Witness ==
    /\ last.op = "socket.connection"
    /\ last.arg \notin last.before
    /\ \E t \in last.before \cap MapKeys(users) : user[t].idle > 0
    /\ Len(users) = 2

\* The first entry of a list of texts that is not empty, the last one if none.
RECURSIVE FirstNonEmpty(_)
FirstNonEmpty(texts) ==
    IF Len(texts) = 1 \/ Head(texts) # Empty THEN Head(texts)
    ELSE FirstNonEmpty(Tail(texts))
\* "User " followed by the first eight characters of the id, or all of them.
ShortIdPlaceholder(id) ==
    <<"U", "s", "e", "r", " ">> \o [i \in 1..(IF Len(id) > 8 THEN 8 ELSE Len(id)) |-> id[i]]

\* C27: the username announced when the fetch resolves is the first non-empty
\* of profile name, client display name, profile email, client email and the
\* "User <shortId>" placeholder; when it rejects, the first non-empty of client
\* display name, client email and the placeholder.
C27_DisplayNameFallbackOrder ==
    /\ enrich.settled = "then" =>
          enrich.username = FirstNonEmpty(<<enrich.u.name, enrich.userName,
                                            enrich.u.email, enrich.userEmail,
                                            ShortIdPlaceholder(enrich.userId)>>)
    /\ enrich.settled = "catch" =>
          enrich.username = FirstNonEmpty(<<enrich.userName, enrich.userEmail,
                                            ShortIdPlaceholder(enrich.userId)>>)

\* The fetch resolved with a profile that has an email and no name for a
\* client that sent a display name and an email: the display name is announced.
C27_Witness ==
    /\ enrich.settled = "then"
    /\ enrich.u.name = Empty /\ enrich.u.email # Empty
    /\ enrich.userName # Empty /\ enrich.userEmail # Empty
    /\ enrich.username = enrich.userName

\* Two events have the same type, and their data and metadata are both
\* undefined or both objects with the same value under every property name.
SameObject(a, b) ==
    a.defined = b.defined /\ \A k \in ObjKeys : Read(a, k) = Read(b, k)
SameEvent(a, b) ==
    a.type = b.type /\ SameObject(a.data, b.data) /\ SameObject(a.metadata, b.metadata)

\* C28: the event a connection reads from broadcast or sendToChannel has the
\* type, data and metadata of the event the caller passed.
C28_FanOutDeliversEventUnchanged ==
    (last.op \in {"broadcast", "sendToChannel"} /\ last.delivered # {}) =>
        SameEvent(last.received, last.sent)

\* C29: disconnectClient returns true exactly if the id was registered; then
\* the client's stream is closed and its record gone; for an id that was not
\* registered the registry and the streams are as before.
C29_DisconnectClientTrueIffRegistered ==
    last.op = "disconnectClient" =>
        /\ last.ok <=> last.found
        /\ last.found =>
              /\ ~Has(clients, last.arg)
              /\ \A s \in last.targets : ~stream[s].open
        /\ ~last.found =>
              /\ Controllers(clients) = last.before
              /\ OpenStreams(stream) = last.wasOpen

\* The positions of step `name` of connection s among the steps of the handler
\* that ran last.
StepsAt(name, s) == {i \in DOMAIN last.steps : last.steps[i] = Step(name, s)}

\* C30: for every record the sweep evicts the socket is closed, then the record
\* removed, then the rooms are left, then the disconnection is announced, each
\* once and in this order, and the announcement carries the user id and the
\* display name of the evicted record.
C30_EvictionClosesRemovesPurgesAnnounces ==
    last.op = "socket.sweep" =>
        \A r \in last.removed :
            /\ \E c \in StepsAt("close", r.id), d \in StepsAt("remove", r.id),
                  p \in StepsAt("purge", r.id), a \in StepsAt("announce", r.id) :
                  c < d /\ d < p /\ p < a
            /\ \A name \in {"close", "remove", "purge", "announce"} :
                  Cardinality(StepsAt(name, r.id)) = 1
            /\ \E i \in DOMAIN last.events :
                  /\ last.events[i].type = "user:disconnected"
                  /\ last.events[i].id = r.id
                  /\ last.events[i].userId = r.userId
                  /\ last.events[i].named = r.named

(***************************************************************************)
(* C31: within one sweep of the push-stream registry or of the socket      *)
(* registry, every stale connection the sweep found is closed and out of   *)
(* the registry when the sweep ends, also when closing another one of them *)
(* failed (its controller was closed already, so close() threw); the sweep *)
(* itself ends normally.                                                    *)
(***************************************************************************)
C31_EvictionFailureDoesNotBlockOthers ==
    /\ last.op = "cleanup" =>
          /\ ~last.threw
          /\ \A s \in last.targets :
                /\ ~stream[s].open
                /\ s \notin Controllers(clients)
    /\ last.op = "socket.sweep" =>
          /\ ~last.threw
          /\ \A s \in last.targets :
                /\ ~sockets[s].conn
                /\ s \notin MapKeys(users)

\* A sweep found two stale push-stream connections; closing one of them threw,
\* the other one was still writable.
C31_Witness ==
    /\ last.op = "cleanup"
    /\ \E s, t \in last.targets :
          /\ s \notin last.wasOpen
          /\ t \in last.wasOpen

(***************************************************************************)
(* C32: the manager's heartbeat/sweep interval is a singleton: in every    *)
(* state at most one interval is running, and when cleanup() has run none  *)
(* is running.                                                              *)
(***************************************************************************)
C32_TimersAreSingletons ==
    /\ Cardinality(manager.running) <= 1
    /\ last.op = "manager.cleanup" => manager.running = {}

(***************************************************************************)
(* C33: when a handler has run for an inbound message of a registered      *)
(* connection (ping, join-room, leave-room, custom-event, subscribe,       *)
(* send-message), that connection's lastActive is the current time.        *)
(***************************************************************************)
InboundMessages ==
    {"socket.ping", "socket.join-room", "socket.leave-room", "socket.custom-event",
     "socket.unlistened"}
C33_EveryInboundMessageRefreshesLastActive ==
    (last.op \in InboundMessages /\ last.arg \in MapKeys(users))
        => user[last.arg].idle = 0

(***************************************************************************)
(* C34: in every state the active set holds registered connections only:   *)
(* an id that has been taken out of `users` is not in activeSockets.       *)
(***************************************************************************)
C34_ActiveSetWithinRegistry == activeSockets \subseteq MapKeys(users)

(***************************************************************************)
(* C35: the abort listener of a push-stream connection removes only the    *)
(* record that connection created: every other live connection whose       *)
(* controller was registered when the listener started is still            *)
(* registered, and so reachable by sendToClient and broadcast, after it.   *)
(***************************************************************************)
C35_AbortRemovesOnlyOwnRecord ==
    last.op = "abort" =>
        \A t \in Streams :
            (stream[t] # NoStream /\ stream[t].open /\ t \in last.before)
                => t \in Controllers(clients)

C37_HeartbeatStopsAfterRemoval ==
    (last.op = "heartbeat" /\ ~(last.targets \subseteq last.before))
        => \A s \in last.targets : ~stream[s].hb


\* The hooks that hold the shared socket: socketRef.current is set.
Holders == {h \in Hooks : hook[h].socketRef # None}

\* C38: the refCount of the registry entry equals the number of hooks holding
\* the shared socket, so the entry exists (and its socket lives) exactly while
\* some hook holds it: it is deleted with the last holder's disconnect and never
\* while a holder remains.
C38_RefCountCountsHolders ==
    /\ socketRegistry.refCount = Cardinality(Holders)
    /\ socketRegistry.socket # None <=> Holders # {}

\* C39: a hook starts at most reconnectAttempts reconnection attempts in a row
\* after a disconnect or connection error; a hook at the limit sets no further
\* timeout and reports the max-attempts error; a successful connect puts the
\* counter back to 0.
C39_ReconnectAttemptsBounded ==
    /\ \A h \in Hooks : hook[h].attempts <= reconnectAttempts
    /\ \A h \in Hooks : hook[h].reconnectCount <= reconnectAttempts
    /\ last.op \in {"client.connect_error", "client.disconnect"} =>
           \A h \in last.wasOpen : h \notin last.delivered /\ hook[h].error = "max"
    /\ last.op = "client.connect" =>
           \A h \in last.targets : hook[h].reconnectCount = 0

\* The parts of C39 about the counter alone (used to tell them from the bound
\* on the attempts made).
ReconnectCounterParts ==
    /\ \A h \in Hooks : hook[h].reconnectCount <= reconnectAttempts
    /\ last.op \in {"client.connect_error", "client.disconnect"} =>
           \A h \in last.wasOpen : h \notin last.delivered /\ hook[h].error = "max"
    /\ last.op = "client.connect" =>
           \A h \in last.targets : hook[h].reconnectCount = 0

\* How often the handler of hook h for type t was called for the last event.
Invocations(h, t) ==
    Cardinality({i \in 1..Len(last.invoked) :
                    last.invoked[i] = [hook |-> h, type |-> t]})

\* C40: for an "event" message, every hook listening that has a handler for
\* the event's type has that handler called exactly once, whatever the type is.
C40_HandlerInvokedOncePerEvent ==
    last.op = "client.event" =>
        \A h \in last.targets :
            last.mode \in hook[h].handlers => Invocations(h, last.mode) = 1

====
